---------------------------- MODULE Spec2Model ----------------------------
(* Model of the codex openai-proxy adapter (codex-rs/openai-proxy):        *)
(* request normalisation, session resolution, the turn driver loop of the  *)
(* four handlers of main.rs (handle_once, handle_responses_once,           *)
(* handle_stream, handle_responses_stream), the bounded mpsc channel to    *)
(* the SSE writer, and the item / model mappers.                           *)
(*                                                                         *)
(* Strings are sequences of indivisible fragments ("characters"); the      *)
(* whitespace fragments are " " and "\n". Option<T> is a sequence of       *)
(* length 0 (None) or 1 (Some).                                            *)
EXTENDS Integers, Sequences, FiniteSets, TLC

\* ------------------------------------------------------------------ bounds
MaxEvents == 3
MaxForeign == 1

\* --------------------------------------------------------------- options
None == <<>>
Some(x) == <<x>>
IsSome(o) == Len(o) = 1
Unwrap(o) == o[1]

\* ----------------------------------------------------------------- strings
IsWhitespace(c) == c \in {" ", "\n"}

RECURSIVE TrimStart(_)
TrimStart(s) ==
    IF s = <<>> THEN <<>>
    ELSE IF IsWhitespace(Head(s)) THEN TrimStart(Tail(s)) ELSE s

RECURSIVE TrimEnd(_)
TrimEnd(s) ==
    IF s = <<>> THEN <<>>
    ELSE IF IsWhitespace(s[Len(s)]) THEN TrimEnd(SubSeq(s, 1, Len(s) - 1)) ELSE s

\* str::trim
Trim(s) == TrimEnd(TrimStart(s))

\* [&str]::join(sep)
RECURSIVE Join(_, _)
Join(parts, sep) ==
    IF parts = <<>> THEN <<>>
    ELSE IF Len(parts) = 1 THEN parts[1]
    ELSE parts[1] \o sep \o Join(Tail(parts), sep)

\* Iterator::filter_map over a sequence: f(x) is an Option
RECURSIVE FilterMap(_, _)
FilterMap(f(_), xs) ==
    IF xs = <<>> THEN <<>>
    ELSE f(Head(xs)) \o FilterMap(f, Tail(xs))

\* ------------------------------------------------------- structured items
FunctionCallItem ==
    [type |-> "FunctionCall", call_id |-> "call_1", name |-> "lookup",
     arguments |-> "{}"]
CustomToolCallItem ==
    [type |-> "CustomToolCall", call_id |-> "call_2", name |-> "apply_patch",
     input |-> "*** patch"]
ReasoningItem == [type |-> "Reasoning"]
MessageItem(role, content) ==
    [type |-> "Message", role |-> role, content |-> content]
OutputText(t) == [type |-> "OutputText", text |-> t]
InputText(t) == [type |-> "InputText", text |-> t]
InputImage == [type |-> "InputImage"]

ToolCall(id, name, arguments) ==
    [id |-> id, kind |-> "function",
     function |-> [name |-> name, arguments |-> arguments]]

\* mutant: the custom tool call is not recognised
map_tool_call_no_custom(item) ==
    IF item.type = "FunctionCall"
    THEN Some(ToolCall(item.call_id, item.name, item.arguments))
    ELSE None

\* mutant: every item is taken for a tool call
map_tool_call_any(item) ==
    IF item.type = "FunctionCall"
    THEN Some(ToolCall(item.call_id, item.name, item.arguments))
    ELSE IF item.type = "CustomToolCall"
    THEN Some(ToolCall(item.call_id, item.name, item.input))
    ELSE Some(ToolCall("", "", ""))

map_tool_call(item) ==
    IF item.type = "FunctionCall"
    THEN Some(ToolCall(item.call_id, item.name, item.arguments))
    ELSE IF item.type = "CustomToolCall"
    THEN Some(ToolCall(item.call_id, item.name, item.input))
    ELSE None

\* -------------------------------------------------------------- map_model
ToLowerChar(c) ==
    CASE c = "G" -> "g" [] c = "P" -> "p" [] c = "T" -> "t" [] c = "O" -> "o"
      [] c = "M" -> "m" [] c = "I" -> "i" [] c = "N" -> "n"
      [] c = "R" -> "r" [] c = "E" -> "e" [] c = "V" -> "v" [] c = "W" -> "w"
      [] OTHER -> c

\* str::to_lowercase
to_lowercase(s) == [i \in 1..Len(s) |-> ToLowerChar(s[i])]

Gpt41 == <<"g", "p", "t", "-", "4", ".", "1">>
Gpt41Mini == Gpt41 \o <<"-", "m", "i", "n", "i">>
Gpt4o == <<"g", "p", "t", "-", "4", "o">>
Gpt4oMini == Gpt4o \o <<"-", "m", "i", "n", "i">>
O3Mini == <<"o", "3", "-", "m", "i", "n", "i">>
O1Mini == <<"o", "1", "-", "m", "i", "n", "i">>
O1Preview == <<"o", "1", "-", "p", "r", "e", "v", "i", "e", "w">>

aliases ==
    << <<Gpt41, Gpt41>>, <<Gpt41Mini, Gpt41Mini>>, <<Gpt4o, Gpt4o>>,
       <<Gpt4oMini, Gpt4oMini>>, <<O3Mini, O3Mini>>, <<O1Mini, O1Mini>>,
       <<O1Preview, O1Preview>> >>

RECURSIVE AliasLookup(_, _, _)
AliasLookup(normalized, i, model) ==
    IF i > Len(aliases) THEN model
    ELSE IF normalized = aliases[i][1] THEN aliases[i][2]
    ELSE AliasLookup(normalized, i + 1, model)

\* mutant: an unknown name is answered in lower case
map_model_lowercased(model) ==
    AliasLookup(to_lowercase(model), 1, to_lowercase(model))

map_model(model) == AliasLookup(to_lowercase(model), 1, model)

\* ---------------------------------------------------------- JSON values
JStr(s) == [t |-> "String", s |-> s]
JArr(a) == [t |-> "Array", arr |-> a]
JNull == [t |-> "Null"]
\* a JSON object used as a content block: optional keys "text", "content"
Block(text, content) == [t |-> "Object", text |-> text, content |-> content]

\* v.get("text").or_else(|| v.get("content")), for any JSON value v
BlockField(v) ==
    IF v.t # "Object" THEN None
    ELSE IF IsSome(v.text) THEN v.text ELSE v.content

\* Value::as_str
as_str(v) == IF v.t = "String" THEN Some(v.s) ELSE None

BlockText(v) ==
    LET f == BlockField(v) IN IF IsSome(f) THEN as_str(Unwrap(f)) ELSE None

\* the text of a content value: a string, or the joined text of its blocks
ContentText(content) ==
    IF content.t = "String" THEN content.s
    ELSE IF content.t = "Array"
    THEN Join(FilterMap(BlockText, content.arr), <<"\n">>)
    ELSE <<>>

\* ------------------------------------------------------------ normalizer
SystemLine(instructions) ==
    IF IsSome(instructions) /\ Trim(Unwrap(instructions)) # <<>>
    THEN << <<"system", ":", " ">> \o Trim(Unwrap(instructions)) >>
    ELSE <<>>

PartsToText(parts) ==
    IF parts = <<>> THEN None ELSE Some(Join(parts, <<"\n">>))

\* mutant: blank fragments are not dropped
MessagePart_keep_blank(m) ==
    Some(m.role \o <<":", " ">> \o ContentText(m.content))

MessagePart(m) ==
    LET content == ContentText(m.content)
    IN  IF Trim(content) = <<>> THEN None
        ELSE Some(m.role \o <<":", " ">> \o content)

\* mutant: the lines are joined last fragment first
merge_messages_reversed(msgs) ==
    LET parts == FilterMap(MessagePart, msgs)
    IN  PartsToText([i \in 1..Len(parts) |-> parts[Len(parts) + 1 - i]])

merge_messages(msgs) == PartsToText(FilterMap(MessagePart, msgs))

\* a free-form input item: a JSON object with optional keys role, content, text
InputObject(role, content, text) ==
    [t |-> "Object", role |-> role, content |-> content, text |-> text]

InputValuePart(item) ==
    IF item.t # "Object" THEN None
    ELSE
      LET r == IF IsSome(item.role) THEN as_str(Unwrap(item.role)) ELSE None
          role == IF IsSome(r) THEN Unwrap(r) ELSE <<"user">>
          content_val ==
              IF IsSome(item.content) THEN Unwrap(item.content)
              ELSE IF IsSome(item.text) THEN Unwrap(item.text)
              ELSE JNull
          content_text == ContentText(content_val)
      IN  IF Trim(content_text) # <<>>
          THEN Some(role \o <<":", " ">> \o Trim(content_text))
          ELSE None

merge_responses_input_values(input, instructions) ==
    PartsToText(SystemLine(instructions) \o FilterMap(InputValuePart, input))

ContentItemText(c) ==
    IF c.type \in {"InputText", "OutputText"} THEN Some(c.text) ELSE None

\* mutant: blank message items are not dropped
ResponseItemPart_keep_blank(item) ==
    IF item.type # "Message" THEN None
    ELSE Some(item.role \o <<":", " ">>
              \o Trim(Join(FilterMap(ContentItemText, item.content), <<"\n">>)))

ResponseItemPart(item) ==
    IF item.type # "Message" THEN None
    ELSE
      LET text == Join(FilterMap(ContentItemText, item.content), <<"\n">>)
      IN  IF Trim(text) # <<>>
          THEN Some(item.role \o <<":", " ">> \o Trim(text))
          ELSE None

merge_responses_input(input, instructions) ==
    PartsToText(SystemLine(instructions) \o FilterMap(ResponseItemPart, input))

merged_text_from_request(body) ==
    LET fromMessages ==
            IF IsSome(body.messages) THEN merge_messages(Unwrap(body.messages))
            ELSE None
    IN  IF IsSome(fromMessages) THEN fromMessages
        ELSE IF IsSome(body.input)
        THEN merge_responses_input_values(Unwrap(body.input), body.instructions)
        ELSE None

\* ------------------------------------------------------ session events
AgentMessage(m) == [kind |-> "AgentMessage", message |-> m]
AgentMessageDelta(d) == [kind |-> "AgentMessageDelta", delta |-> d]
RawResponseItem(item) == [kind |-> "RawResponseItem", item |-> item]
TurnComplete(last) == [kind |-> "TurnComplete", last_agent_message |-> last]
ErrorEvent(m) == [kind |-> "Error", message |-> m]
Warning(m) == [kind |-> "Warning", message |-> m]
TurnAborted(r) == [kind |-> "TurnAborted", reason |-> r]
TokenCount == [kind |-> "TokenCount"]
Event(id, msg) == [id |-> id, msg |-> msg]

\* the id of this call's Turn Request, and the id of another turn that the
\* same session is running
SubmissionId == "sub-own"
ForeignId == "sub-foreign"

IsTerminal(msg) == msg.kind \in {"TurnComplete", "Error", "TurnAborted"}

\* --------------------------------------------------- elements on the channel
\* Result<T, String>
Ok(v) == [ok |-> TRUE, value |-> v]
Err(e) == [ok |-> FALSE, error |-> e]
DoneMarker == [type |-> "[DONE]"]

ToolCallDelta(tc) ==
    [index |-> 0, id |-> tc.id, type |-> tc.kind,
     function |-> [name |-> tc.function.name,
                   arguments |-> tc.function.arguments]]

ChunkDelta(content, tool_call) ==
    [content |-> content,
     tool_calls |-> IF IsSome(tool_call)
                    THEN Some(<<ToolCallDelta(Unwrap(tool_call))>>) ELSE None]

stream_chunk(content, tool_call, done, conversation_id) ==
    LET delta == ChunkDelta(content, tool_call)
    IN  [type |-> "chat.completion.chunk",
         delta |-> delta,
         finish_reason |->
             IF done
             THEN Some(IF IsSome(delta.tool_calls) THEN "tool_calls" ELSE "stop")
             ELSE None,
         conversation_id |-> conversation_id]

\* mutant: the terminal chunk is built like any other chunk
stream_chunk_with_finish_null(content, tool_call, finish_reason, conversation_id) ==
    stream_chunk(content, tool_call, FALSE, conversation_id)

stream_chunk_with_finish(content, tool_call, finish_reason, conversation_id) ==
    [type |-> "chat.completion.chunk",
     delta |-> ChunkDelta(content, tool_call),
     finish_reason |-> Some(finish_reason),
     conversation_id |-> conversation_id]

ResponseId == "resp-codex-1"

response_created_event(response_id, conversation_id) ==
    [type |-> "response.created",
     response |-> [id |-> response_id, conversation_id |-> conversation_id]]

response_output_text_delta_event(delta) ==
    [type |-> "response.output_text.delta", delta |-> delta]

response_output_item_done_event(item) ==
    [type |-> "response.output_item.done", item |-> item]

response_completed_event(response_id, conversation_id) ==
    [type |-> "response.completed",
     response |-> [id |-> response_id, conversation_id |-> conversation_id]]

\* ------------------------------------------------------------ responses
json_response(status, body) == [status |-> status, body |-> body]

error_response(status, msg, kind) ==
    json_response(status, [error |-> [message |-> msg, type |-> kind]])

BAD_REQUEST == 400
INTERNAL_SERVER_ERROR == 500
OK == 200
ChannelCapacity == 16

\* ------------------------------------------------------- driver loop bodies
\* One iteration of each handler's event loop on the pulled event ev. The
\* record st holds the task's locals; ret (aggregate) is the task's return
\* value once it has returned; out (streaming) is what the iteration sends on
\* the channel, in order, and brk says that the loop was left.

\* mutant: the id filter is missing
handle_once_event_nofilter(st, ev) ==
    LET m == ev.msg IN
    CASE m.kind = "AgentMessage" ->
            [st EXCEPT !.final_text = @ \o m.message \o <<"\n">>]
      [] m.kind = "AgentMessageDelta" ->
            [st EXCEPT !.final_text = @ \o m.delta]
      [] m.kind = "RawResponseItem" ->
            [st EXCEPT !.tool_calls = @ \o map_tool_call(m.item)]
      [] m.kind = "TurnComplete" ->
            LET ft == IF IsSome(m.last_agent_message)
                      THEN Unwrap(m.last_agent_message) ELSE st.final_text
            IN  [st EXCEPT !.final_text = ft, !.ret = Some(Ok(ft))]
      [] m.kind = "Error" ->
            [st EXCEPT !.ret = Some(Err(<<"Codex error: ">> \o m.message))]
      [] m.kind = "TurnAborted" ->
            [st EXCEPT !.ret = Some(Err(<<"Turn aborted: ", m.reason>>))]
      [] OTHER -> st

\* mutant: the final message is appended to the buffer instead of replacing it
handle_once_event_append(st, ev) ==
    IF ev.id # SubmissionId THEN st
    ELSE IF ev.msg.kind = "TurnComplete"
    THEN LET ft == IF IsSome(ev.msg.last_agent_message)
                   THEN st.final_text \o Unwrap(ev.msg.last_agent_message)
                   ELSE st.final_text
         IN  [st EXCEPT !.final_text = ft, !.ret = Some(Ok(ft))]
    ELSE handle_once_event_nofilter(st, ev)

\* mutant: deltas are joined with a newline, as messages are
handle_once_event_delta_newline(st, ev) ==
    IF ev.id # SubmissionId THEN st
    ELSE IF ev.msg.kind = "AgentMessageDelta"
    THEN [st EXCEPT !.final_text = @ \o ev.msg.delta \o <<"\n">>]
    ELSE handle_once_event_nofilter(st, ev)

\* mutant: an error event ends the turn with the text gathered so far
handle_once_event_error_ok(st, ev) ==
    IF ev.id # SubmissionId THEN st
    ELSE IF ev.msg.kind = "Error"
    THEN [st EXCEPT !.ret = Some(Ok(st.final_text))]
    ELSE handle_once_event_nofilter(st, ev)

\* mutant: the loop gives up on an own-id warning and answers what it has
handle_once_event_warning_ends(st, ev) ==
    IF ev.id # SubmissionId THEN st
    ELSE IF ev.msg.kind = "Warning"
    THEN [st EXCEPT !.ret = Some(Ok(st.final_text))]
    ELSE handle_once_event_nofilter(st, ev)

\* mutant: the text of an own-id warning is added to the answer
handle_once_event_warning_text(st, ev) ==
    IF ev.id # SubmissionId THEN st
    ELSE IF ev.msg.kind = "Warning"
    THEN [st EXCEPT !.final_text = @ \o ev.msg.message]
    ELSE handle_once_event_nofilter(st, ev)

\* mutant: a new tool call replaces the list instead of extending it
handle_once_event_last_call(st, ev) ==
    IF ev.id # SubmissionId THEN st
    ELSE IF ev.msg.kind = "RawResponseItem"
    THEN [st EXCEPT !.tool_calls = map_tool_call(ev.msg.item)]
    ELSE handle_once_event_nofilter(st, ev)

\* mutant: a text-message is appended without its newline
handle_once_event_message_raw(st, ev) ==
    IF ev.id # SubmissionId THEN st
    ELSE IF ev.msg.kind = "AgentMessage"
    THEN [st EXCEPT !.final_text = @ \o ev.msg.message]
    ELSE handle_once_event_nofilter(st, ev)

handle_once_event(st, ev) ==
    IF ev.id # SubmissionId THEN st
    ELSE
      LET m == ev.msg IN
      CASE m.kind = "AgentMessage" ->
              [st EXCEPT !.final_text = @ \o m.message \o <<"\n">>]
        [] m.kind = "AgentMessageDelta" ->
              [st EXCEPT !.final_text = @ \o m.delta]
        [] m.kind = "RawResponseItem" ->
              [st EXCEPT !.tool_calls = @ \o map_tool_call(m.item)]
        [] m.kind = "TurnComplete" ->
              LET ft == IF IsSome(m.last_agent_message)
                        THEN Unwrap(m.last_agent_message) ELSE st.final_text
              IN  [st EXCEPT !.final_text = ft, !.ret = Some(Ok(ft))]
        [] m.kind = "Error" ->
              [st EXCEPT !.ret = Some(Err(<<"Codex error: ">> \o m.message))]
        [] m.kind = "Warning" -> st
        [] m.kind = "TurnAborted" ->
              [st EXCEPT !.ret = Some(Err(<<"Turn aborted: ", m.reason>>))]
        [] OTHER -> st

AssistantMessage(text) == MessageItem(<<"assistant">>, <<OutputText(text)>>)

\* mutant: the assistant message is added whenever text was seen, blank or not
handle_responses_once_event_blank_message(st, ev) ==
    IF ev.id # SubmissionId THEN st
    ELSE
      LET m == ev.msg IN
      CASE m.kind = "AgentMessage" ->
              [st EXCEPT !.final_text = @ \o m.message \o <<"\n">>,
                         !.text_seen = TRUE]
        [] m.kind = "AgentMessageDelta" ->
              [st EXCEPT !.final_text = @ \o m.delta, !.text_seen = TRUE]
        [] m.kind = "RawResponseItem" ->
              [st EXCEPT !.output_items = Append(@, m.item)]
        [] m.kind = "TurnComplete" ->
              LET has == IsSome(m.last_agent_message)
                  ft == IF has THEN Unwrap(m.last_agent_message)
                        ELSE st.final_text
                  seen == has \/ st.text_seen
              IN  [st EXCEPT
                     !.final_text = ft,
                     !.text_seen = seen,
                     !.output_items =
                         IF seen
                         THEN Append(@, AssistantMessage(Trim(ft))) ELSE @,
                     !.ret = Some(Ok(<<>>))]
        [] m.kind = "Error" ->
              [st EXCEPT !.ret = Some(Err(<<"Codex error: ">> \o m.message))]
        [] m.kind = "Warning" -> st
        [] m.kind = "TurnAborted" ->
              [st EXCEPT !.ret = Some(Err(<<"Turn aborted: ", m.reason>>))]
        [] OTHER -> st

handle_responses_once_event(st, ev) ==
    IF ev.id # SubmissionId THEN st
    ELSE
      LET m == ev.msg IN
      CASE m.kind = "AgentMessage" ->
              [st EXCEPT !.final_text = @ \o m.message \o <<"\n">>,
                         !.text_seen = TRUE]
        [] m.kind = "AgentMessageDelta" ->
              [st EXCEPT !.final_text = @ \o m.delta, !.text_seen = TRUE]
        [] m.kind = "RawResponseItem" ->
              [st EXCEPT !.output_items = Append(@, m.item)]
        [] m.kind = "TurnComplete" ->
              LET has == IsSome(m.last_agent_message)
                  ft == IF has THEN Unwrap(m.last_agent_message)
                        ELSE st.final_text
                  seen == has \/ st.text_seen
              IN  [st EXCEPT
                     !.final_text = ft,
                     !.text_seen = seen,
                     !.output_items =
                         IF seen /\ Trim(ft) # <<>>
                         THEN Append(@, AssistantMessage(Trim(ft))) ELSE @,
                     !.ret = Some(Ok(<<>>))]
        [] m.kind = "Error" ->
              [st EXCEPT !.ret = Some(Err(<<"Codex error: ">> \o m.message))]
        [] m.kind = "Warning" -> st
        [] m.kind = "TurnAborted" ->
              [st EXCEPT !.ret = Some(Err(<<"Turn aborted: ", m.reason>>))]
        [] OTHER -> st

\* mutant: the finish reason is always "stop"
handle_stream_event_always_stop(st, ev) ==
    IF ev.id # SubmissionId THEN st
    ELSE
      LET m == ev.msg
          cid == Some(st.conv_id)
      IN
      CASE m.kind \in {"AgentMessage", "AgentMessageDelta"} ->
              [st EXCEPT !.out = Append(@, Ok(stream_chunk(
                  Some(IF m.kind = "AgentMessage" THEN m.message ELSE m.delta),
                  None, FALSE, cid)))]
        [] m.kind = "RawResponseItem" ->
              IF IsSome(map_tool_call(m.item))
              THEN [st EXCEPT !.tool_seen = TRUE,
                              !.out = Append(@, Ok(stream_chunk(
                                  None, map_tool_call(m.item), FALSE, cid)))]
              ELSE st
        [] m.kind = "TurnComplete" ->
              [st EXCEPT
                 !.out = @
                     \o (IF IsSome(m.last_agent_message)
                         THEN <<Ok(stream_chunk(m.last_agent_message, None,
                                                FALSE, cid))>>
                         ELSE <<>>)
                     \o <<Ok(stream_chunk_with_finish(None, None, "stop", cid)),
                          Ok(DoneMarker)>>,
                 !.brk = TRUE]
        [] m.kind = "Error" ->
              [st EXCEPT !.out = Append(@, Err(<<"Codex error: ">> \o m.message)),
                         !.brk = TRUE]
        [] m.kind = "TurnAborted" ->
              [st EXCEPT !.out = Append(@, Err(<<"Turn aborted: ", m.reason>>)),
                         !.brk = TRUE]
        [] OTHER -> st

\* mutant: the loop is not left after an error event
handle_stream_event_no_break(st, ev) ==
    IF ev.id = SubmissionId /\ ev.msg.kind = "Error"
    THEN [st EXCEPT !.out = Append(@, Err(<<"Codex error: ">> \o ev.msg.message))]
    ELSE IF ev.id = SubmissionId /\ ev.msg.kind = "TurnComplete"
    THEN LET m == ev.msg
             cid == Some(st.conv_id)
         IN  [st EXCEPT
                !.out = @
                    \o (IF IsSome(m.last_agent_message)
                        THEN <<Ok(stream_chunk(m.last_agent_message, None,
                                               FALSE, cid))>>
                        ELSE <<>>)
                    \o <<Ok(stream_chunk_with_finish(
                             None, None,
                             IF st.tool_seen THEN "tool_calls" ELSE "stop", cid)),
                         Ok(DoneMarker)>>,
                !.brk = TRUE]
    ELSE handle_stream_event_always_stop(st, ev)

\* mutant: the end-of-stream marker is sent before the terminal chunk
handle_stream_event_done_early(st, ev) ==
    IF ev.id = SubmissionId /\ ev.msg.kind = "TurnComplete"
    THEN LET m == ev.msg
             cid == Some(st.conv_id)
         IN  [st EXCEPT
                !.out = @
                    \o (IF IsSome(m.last_agent_message)
                        THEN <<Ok(stream_chunk(m.last_agent_message, None,
                                               FALSE, cid))>>
                        ELSE <<>>)
                    \o <<Ok(DoneMarker),
                         Ok(stream_chunk_with_finish(
                             None, None,
                             IF st.tool_seen THEN "tool_calls" ELSE "stop", cid))>>,
                !.brk = TRUE]
    ELSE handle_stream_event_always_stop(st, ev)

\* mutant: a failure is followed by the end-of-stream marker
handle_stream_event_error_then_done(st, ev) ==
    IF ev.id = SubmissionId /\ ev.msg.kind = "Error"
    THEN [st EXCEPT !.out = @ \o <<Err(<<"Codex error: ">> \o ev.msg.message),
                                   Ok(DoneMarker)>>,
                    !.brk = TRUE]
    ELSE handle_stream_event_no_break(st, ev)

\* mutant: deltas are held back; the text reaches the caller only with the
\* final message of the turn-complete
handle_stream_event_coalesce(st, ev) ==
    IF ev.id = SubmissionId /\ ev.msg.kind = "AgentMessageDelta" THEN st
    ELSE IF ev.id = SubmissionId /\ ev.msg.kind = "TurnComplete"
    THEN handle_stream_event_no_break(st, ev)
    ELSE handle_stream_event_always_stop(st, ev)

\* mutant: the chat stream forwards every structured item as a tool_calls chunk
handle_stream_event_all_items(st, ev) ==
    IF /\ ev.id = SubmissionId
       /\ ev.msg.kind = "RawResponseItem"
       /\ map_tool_call(ev.msg.item) = None
    THEN [st EXCEPT !.out = Append(@, Ok(stream_chunk(
                                None, Some(ToolCall("", "", "")), FALSE,
                                Some(st.conv_id))))]
    ELSE IF ev.id = SubmissionId /\ ev.msg.kind = "TurnComplete"
    THEN handle_stream_event_no_break(st, ev)
    ELSE handle_stream_event_always_stop(st, ev)

handle_stream_event(st, ev) ==
    IF ev.id # SubmissionId THEN st
    ELSE
      LET m == ev.msg
          cid == Some(st.conv_id)
      IN
      CASE m.kind = "AgentMessage" ->
              [st EXCEPT !.out = Append(@,
                  Ok(stream_chunk(Some(m.message), None, FALSE, cid)))]
        [] m.kind = "AgentMessageDelta" ->
              [st EXCEPT !.out = Append(@,
                  Ok(stream_chunk(Some(m.delta), None, FALSE, cid)))]
        [] m.kind = "RawResponseItem" ->
              LET tc == map_tool_call(m.item)
              IN  IF IsSome(tc)
                  THEN [st EXCEPT !.tool_seen = TRUE,
                                  !.out = Append(@,
                                      Ok(stream_chunk(None, tc, FALSE, cid)))]
                  ELSE st
        [] m.kind = "TurnComplete" ->
              LET finish_reason == IF st.tool_seen THEN "tool_calls" ELSE "stop"
              IN  [st EXCEPT
                     !.out = @
                         \o (IF IsSome(m.last_agent_message)
                             THEN <<Ok(stream_chunk(m.last_agent_message, None,
                                                    FALSE, cid))>>
                             ELSE <<>>)
                         \o <<Ok(stream_chunk_with_finish(None, None,
                                                          finish_reason, cid)),
                              Ok(DoneMarker)>>,
                     !.brk = TRUE]
        [] m.kind = "Error" ->
              [st EXCEPT !.out = Append(@, Err(<<"Codex error: ">> \o m.message)),
                         !.brk = TRUE]
        [] m.kind = "Warning" -> st
        [] m.kind = "TurnAborted" ->
              [st EXCEPT !.out = Append(@, Err(<<"Turn aborted: ", m.reason>>)),
                         !.brk = TRUE]
        [] OTHER -> st

\* mutant: only the items that map to a tool call are forwarded
handle_responses_stream_event_tool_items_only(st, ev) ==
    IF ev.id # SubmissionId THEN st
    ELSE
      LET m == ev.msg
          cid == Some(st.conv_id)
      IN
      CASE m.kind \in {"AgentMessage", "AgentMessageDelta"} ->
              [st EXCEPT !.text_seen = TRUE,
                         !.out = Append(@, Ok(response_output_text_delta_event(
                             IF m.kind = "AgentMessage" THEN m.message
                             ELSE m.delta)))]
        [] m.kind = "RawResponseItem" ->
              IF IsSome(map_tool_call(m.item))
              THEN [st EXCEPT !.out = Append(@,
                       Ok(response_output_item_done_event(m.item)))]
              ELSE st
        [] m.kind = "TurnComplete" ->
              LET synth == IsSome(m.last_agent_message) /\ ~st.text_seen
              IN  [st EXCEPT
                     !.text_seen = @ \/ synth,
                     !.out = @
                         \o (IF synth
                             THEN <<Ok(response_output_text_delta_event(
                                        Unwrap(m.last_agent_message)))>>
                             ELSE <<>>)
                         \o <<Ok(response_completed_event(ResponseId, cid)),
                              Ok(DoneMarker)>>,
                     !.brk = TRUE]
        [] m.kind = "Error" ->
              [st EXCEPT !.out = Append(@, Err(<<"Codex error: ">> \o m.message)),
                         !.brk = TRUE]
        [] m.kind = "TurnAborted" ->
              [st EXCEPT !.out = Append(@, Err(<<"Turn aborted: ", m.reason>>)),
                         !.brk = TRUE]
        [] OTHER -> st

\* mutant: the final message is sent whether or not text was streamed
handle_responses_stream_event_always_final(st, ev) ==
    IF ev.id # SubmissionId THEN st
    ELSE
      LET m == ev.msg
          cid == Some(st.conv_id)
      IN
      CASE m.kind = "AgentMessage" ->
              [st EXCEPT !.text_seen = TRUE,
                         !.out = Append(@,
                             Ok(response_output_text_delta_event(m.message)))]
        [] m.kind = "AgentMessageDelta" ->
              [st EXCEPT !.text_seen = TRUE,
                         !.out = Append(@,
                             Ok(response_output_text_delta_event(m.delta)))]
        [] m.kind = "RawResponseItem" ->
              [st EXCEPT !.out = Append(@,
                  Ok(response_output_item_done_event(m.item)))]
        [] m.kind = "TurnComplete" ->
              LET synth == IsSome(m.last_agent_message)
              IN  [st EXCEPT
                     !.text_seen = @ \/ synth,
                     !.out = @
                         \o (IF synth
                             THEN <<Ok(response_output_text_delta_event(
                                        Unwrap(m.last_agent_message)))>>
                             ELSE <<>>)
                         \o <<Ok(response_completed_event(ResponseId, cid)),
                              Ok(DoneMarker)>>,
                     !.brk = TRUE]
        [] m.kind = "Error" ->
              [st EXCEPT !.out = Append(@, Err(<<"Codex error: ">> \o m.message)),
                         !.brk = TRUE]
        [] m.kind = "Warning" -> st
        [] m.kind = "TurnAborted" ->
              [st EXCEPT !.out = Append(@, Err(<<"Turn aborted: ", m.reason>>)),
                         !.brk = TRUE]
        [] OTHER -> st

\* mutant: the loop goes on after an own-id turn-aborted
handle_responses_stream_event_abort_continues(st, ev) ==
    IF ev.id = SubmissionId /\ ev.msg.kind = "TurnAborted"
    THEN [handle_responses_stream_event_tool_items_only(st, ev)
              EXCEPT !.brk = FALSE]
    ELSE IF ev.id = SubmissionId /\ ev.msg.kind = "RawResponseItem"
    THEN handle_responses_stream_event_always_final(st, ev)
    ELSE handle_responses_stream_event_tool_items_only(st, ev)

handle_responses_stream_event(st, ev) ==
    IF ev.id # SubmissionId THEN st
    ELSE
      LET m == ev.msg
          cid == Some(st.conv_id)
      IN
      CASE m.kind = "AgentMessage" ->
              [st EXCEPT !.text_seen = TRUE,
                         !.out = Append(@,
                             Ok(response_output_text_delta_event(m.message)))]
        [] m.kind = "AgentMessageDelta" ->
              [st EXCEPT !.text_seen = TRUE,
                         !.out = Append(@,
                             Ok(response_output_text_delta_event(m.delta)))]
        [] m.kind = "RawResponseItem" ->
              [st EXCEPT !.out = Append(@,
                  Ok(response_output_item_done_event(m.item)))]
        [] m.kind = "TurnComplete" ->
              LET synth == IsSome(m.last_agent_message) /\ ~st.text_seen
              IN  [st EXCEPT
                     !.text_seen = @ \/ synth,
                     !.out = @
                         \o (IF synth
                             THEN <<Ok(response_output_text_delta_event(
                                        Unwrap(m.last_agent_message)))>>
                             ELSE <<>>)
                         \o <<Ok(response_completed_event(ResponseId, cid)),
                              Ok(DoneMarker)>>,
                     !.brk = TRUE]
        [] m.kind = "Error" ->
              [st EXCEPT !.out = Append(@, Err(<<"Codex error: ">> \o m.message)),
                         !.brk = TRUE]
        [] m.kind = "Warning" -> st
        [] m.kind = "TurnAborted" ->
              [st EXCEPT !.out = Append(@, Err(<<"Turn aborted: ", m.reason>>)),
                         !.brk = TRUE]
        [] OTHER -> st

\* ------------------------------------------------ session collaborator
\* Thread identifiers: the well-formed ones, and the threads the manager
\* knows when the call arrives (one was started by an earlier call).
ThreadIds == {"thread-1", "thread-2", "thread-3"}
KnownThreads == {"thread-1"}

\* ThreadId::from_string
ThreadIdFromString(cid) ==
    IF cid \in ThreadIds THEN Ok(cid)
    ELSE Err(<<"invalid conversation_id: ", cid>>)

\* ThreadManager::start_thread gives the new thread a fresh identifier
FreshThreadId(known) == CHOOSE t \in ThreadIds \ known : TRUE

\* get_or_create_thread: [res, threads], with the collaborator's answers
\* config_ok (Config::load_with_cli_overrides) and start_ok (start_thread)
\* mutant: a reference that names no known session starts a new one
get_or_create_thread_fallback(known, conversation_id, config_ok, start_ok) ==
    IF ~config_ok
    THEN [res |-> Err(<<"config: ", "invalid">>), threads |-> known]
    ELSE IF IsSome(conversation_id) /\ Unwrap(conversation_id) \in known
    THEN [res |-> Ok(Unwrap(conversation_id)), threads |-> known]
    ELSE IF ~start_ok
    THEN [res |-> Err(<<"start_thread: ", "failed">>), threads |-> known]
    ELSE [res |-> Ok(FreshThreadId(known)),
          threads |-> known \cup {FreshThreadId(known)}]

\* mutant: the reference is ignored and every call starts a session
get_or_create_thread_always_new(known, conversation_id, config_ok, start_ok) ==
    IF ~config_ok
    THEN [res |-> Err(<<"config: ", "invalid">>), threads |-> known]
    ELSE IF ~start_ok
    THEN [res |-> Err(<<"start_thread: ", "failed">>), threads |-> known]
    ELSE [res |-> Ok(FreshThreadId(known)),
          threads |-> known \cup {FreshThreadId(known)}]

get_or_create_thread(known, conversation_id, config_ok, start_ok) ==
    IF ~config_ok
    THEN [res |-> Err(<<"config: ", "invalid">>), threads |-> known]
    ELSE IF IsSome(conversation_id)
    THEN LET cid == Unwrap(conversation_id)
             tid == ThreadIdFromString(cid)
         IN  IF ~tid.ok THEN [res |-> tid, threads |-> known]
             ELSE IF tid.value \notin known
             THEN [res |-> Err(<<"thread not found: ", cid>>),
                   threads |-> known]
             ELSE [res |-> Ok(cid), threads |-> known]
    ELSE IF ~start_ok
    THEN [res |-> Err(<<"start_thread: ", "failed">>), threads |-> known]
    ELSE [res |-> Ok(FreshThreadId(known)),
          threads |-> known \cup {FreshThreadId(known)}]

\* ------------------------------------------------------------- requests
Gpt4oUpper == <<"G", "P", "T", "-", "4", "O">>
UserRole == <<"user">>

ChatBody(model, messages, input, instructions, stream, conversation_id) ==
    [model |-> model, messages |-> messages, input |-> input,
     instructions |-> instructions, stream |-> stream,
     conversation_id |-> conversation_id]

ResponsesBody(model, input, instructions, stream, conversation_id) ==
    [model |-> model, input |-> input, instructions |-> instructions,
     stream |-> stream, conversation_id |-> conversation_id]

ChatMessage(role, content) == [role |-> role, content |-> content]

\* the requests of the event-loop specification: one with content and one
\* whitespace-only request per endpoint, streaming or not
ChatBodiesCore ==
    { ChatBody(Gpt4oUpper, Some(<<ChatMessage(UserRole, JStr(c))>>), None, None,
               st, None) : c \in {<<"hi">>, <<" ">>}, st \in BOOLEAN }

ResponsesBodiesCore ==
    { ResponsesBody(Gpt4oUpper, <<MessageItem(UserRole, <<InputText(c)>>)>>,
                    None, st, None) : c \in {<<"hi">>, <<" ">>}, st \in BOOLEAN }

\* the session events of the event-loop specification
OwnMsgs ==
    { AgentMessage(<<"ok">>),
      AgentMessageDelta(<<"Hel">>), AgentMessageDelta(<<"lo">>),
      AgentMessageDelta(<<" ">>),
      RawResponseItem(FunctionCallItem), RawResponseItem(CustomToolCallItem),
      RawResponseItem(ReasoningItem),
      TurnComplete(None), TurnComplete(Some(<<"Hel", "lo", " ">>)),
      ErrorEvent(<<"boom">>), Warning(<<"slow">>), TurnAborted("Interrupted"),
      TokenCount }

ForeignMsgs ==
    { AgentMessage(<<"ok">>), AgentMessageDelta(<<"Hel">>),
      RawResponseItem(FunctionCallItem), TurnComplete(Some(<<"ok">>)),
      ErrorEvent(<<"boom">>), TurnAborted("Interrupted") }

Events ==
    { Event(SubmissionId, m) : m \in OwnMsgs }
        \cup { Event(ForeignId, m) : m \in ForeignMsgs }

\* ---------------------------------------------------------------- state
VARIABLES
    handler,        \* which handler runs the call ("none" before the request)
    body,           \* Option: the request body
    pc,             \* the handler: idle, resolve, await (joining the task), done
    merged_text,    \* Option: the instruction
    conv_id,        \* Option: the session identifier get_or_create_thread gave
    threads,        \* the thread manager's threads
    submitted,      \* the Submissions the thread accepted, in order
    task,           \* the spawned task: none, submit, loop, exit
    final_text,     \* handle_once / handle_responses_once
    text_seen,      \* handle_responses_once / handle_responses_stream
    tool_seen,      \* handle_stream
    tool_calls,     \* handle_once (Arc<Mutex<Vec<ToolCall>>>)
    output_items,   \* handle_responses_once (Arc<Mutex<Vec<ResponseItem>>>)
    result,         \* Option: the task's return value (aggregate handlers)
    response,       \* Option: the HTTP response the handler returned
    pending,        \* the current iteration's elements still to be sent on tx
    sent,           \* every element enqueued on the channel, in order
    taken,          \* how many of them have left the channel's buffer
    rx_alive,       \* the receiver has not been dropped
    ownlog,         \* history: the own-id events pulled, in order
    nForeign,       \* history: how many foreign-id events were pulled
    pulls,          \* history: next_event calls made by the task
    events,         \* two calls, one session: every event the session emitted
    evTaken,        \* two calls, one session: how many of them were pulled
    peer            \* two calls, one session: the other call's task

vars ==
    << handler, body, pc, merged_text, conv_id, threads, submitted, task,
       final_text, text_seen, tool_seen, tool_calls, output_items, result,
       response, pending, sent, taken, rx_alive, ownlog, nForeign, pulls,
       events, evTaken, peer >>

\* the session's event stream as two calls share it, and the second call
pairVars == << events, evTaken, peer >>
reqVars == << handler, body, merged_text, conv_id, threads, pairVars >>
accVars == << final_text, text_seen, tool_seen, tool_calls, output_items >>
chanVars == << pending, sent, taken, rx_alive >>
logVars == << ownlog, nForeign, pulls >>

Streaming ==
    handler \in {"handle_stream", "handle_responses_stream", "mc_handle_stream"}
Aggregate == handler \in {"handle_once", "handle_responses_once"}

Init ==
    /\ handler = "none"
    /\ body = None
    /\ pc = "idle"
    /\ merged_text = None
    /\ conv_id = None
    /\ threads = KnownThreads
    /\ submitted = <<>>
    /\ task = "none"
    /\ final_text = <<>>
    /\ text_seen = FALSE
    /\ tool_seen = FALSE
    /\ tool_calls = <<>>
    /\ output_items = <<>>
    /\ result = None
    /\ response = None
    /\ pending = <<>>
    /\ sent = <<>>
    /\ taken = 0
    /\ rx_alive = TRUE
    /\ ownlog = <<>>
    /\ nForeign = 0
    /\ pulls = 0
    /\ events = <<>>
    /\ evTaken = 0
    /\ peer = [task |-> "none", final_text |-> <<>>, tool_calls |-> <<>>,
               result |-> None]

\* ---------------------------------------------------------------- actions
NoUserContent ==
    error_response(BAD_REQUEST, <<"no user content found">>,
                   "invalid_request_error")

\* The handler's synchronous prefix: normalise, or answer 400.
Normalised(h, b, mt) ==
    /\ pc = "idle"
    /\ handler' = h
    /\ body' = Some(b)
    /\ merged_text' = mt
    /\ IF IsSome(mt)
       THEN pc' = "resolve" /\ response' = response
       ELSE pc' = "done" /\ response' = Some(NoUserContent)
    /\ UNCHANGED << conv_id, threads, submitted, task, result >>
    /\ UNCHANGED << accVars, chanVars, logVars, pairVars >>

\* POST /v1/chat/completions
HandleChatCompletions(b) ==
    Normalised(IF b.stream THEN "handle_stream" ELSE "handle_once", b,
               merged_text_from_request(b))

\* POST /v1/responses
HandleResponses(b) ==
    Normalised(IF b.stream THEN "handle_responses_stream"
               ELSE "handle_responses_once", b,
               merge_responses_input(b.input, b.instructions))

SseResponse == json_response(OK, [stream |-> "text/event-stream"])

\* The handler resolves the session, creates the channel (streaming), spawns
\* the task and, in streaming mode, returns the live stream.
GetOrCreateThread(config_ok, start_ok) ==
    /\ pc = "resolve"
    /\ LET r == get_or_create_thread(threads, Unwrap(body).conversation_id,
                                     config_ok, start_ok)
       IN  /\ threads' = r.threads
           /\ IF r.res.ok
              THEN /\ conv_id' = Some(r.res.value)
                   /\ task' = "submit"
                   /\ IF Aggregate
                      THEN pc' = "await" /\ response' = response /\ sent' = sent
                      ELSE /\ pc' = "done"
                           /\ response' = Some(SseResponse)
                           /\ sent' =
                                IF handler = "handle_responses_stream"
                                THEN <<Ok(response_created_event(
                                           ResponseId, Some(r.res.value)))>>
                                ELSE <<>>
              ELSE /\ conv_id' = None
                   /\ task' = task
                   /\ pc' = "done"
                   /\ response' = Some(error_response(
                          INTERNAL_SERVER_ERROR, r.res.error, "internal_error"))
                   /\ sent' = sent
    /\ UNCHANGED << handler, body, merged_text, submitted, result, pending,
                    taken, rx_alive >>
    /\ UNCHANGED << accVars, logVars, pairVars >>

\* mutant: the Turn Request carries the model name as the caller wrote it
Submission_raw_model ==
    [id |-> SubmissionId,
     op |-> [type |-> "UserTurn",
             items |-> <<[type |-> "Text", text |-> Unwrap(merged_text)]>>,
             approval_policy |-> "Never",
             sandbox_policy |-> "ReadOnly",
             model |-> Unwrap(body).model]]

Submission ==
    [id |-> SubmissionId,
     op |-> [type |-> "UserTurn",
             items |-> <<[type |-> "Text", text |-> Unwrap(merged_text)]>>,
             approval_policy |-> "Never",
             sandbox_policy |-> "ReadOnly",
             model |-> map_model(Unwrap(body).model)]]

\* The task fails: an aggregate task returns Err, a streaming task sends Err.
TaskFails(msg) ==
    /\ task' = "exit"
    /\ IF Aggregate
       THEN result' = Some(Err(msg)) /\ pending' = pending
       ELSE result' = result /\ pending' = <<Err(msg)>>

\* thread.submit_with_id(submission).await
Submit(ok) ==
    /\ task = "submit"
    /\ IF ok
       THEN /\ submitted' = Append(submitted, Submission)
            /\ task' = "loop"
            /\ UNCHANGED << result, pending >>
       ELSE /\ submitted' = submitted
            /\ TaskFails(<<"submit error: ", "closed">>)
    /\ UNCHANGED << reqVars, pc, response, sent, taken, rx_alive >>
    /\ UNCHANGED << accVars, logVars >>

\* history of the pulls; the bounds of the model cap the events of a run
LogPull(ev) ==
    /\ pulls' = pulls + 1
    /\ IF ev.id = SubmissionId
       THEN /\ Len(ownlog) < MaxEvents
            /\ ownlog' = Append(ownlog, ev.msg)
            /\ nForeign' = nForeign
       ELSE /\ nForeign < MaxForeign
            /\ nForeign' = nForeign + 1
            /\ ownlog' = ownlog

\* thread.next_event().await fails
\* mutant: a failed pull is tried again
EventError_retry ==
    /\ task = "loop"
    /\ pending = <<>>
    /\ pulls' = pulls + 1
    /\ UNCHANGED << reqVars, pc, submitted, task, result, response, pending,
                    sent, taken, rx_alive, ownlog, nForeign >>
    /\ UNCHANGED accVars

EventError ==
    /\ task = "loop"
    /\ pending = <<>>
    /\ pulls' = pulls + 1
    /\ TaskFails(<<"event error: ", "closed">>)
    /\ UNCHANGED << reqVars, pc, submitted, response, sent, taken, rx_alive,
                    ownlog, nForeign >>
    /\ UNCHANGED accVars

\* one iteration of handle_once's loop
OnceNextEvent(ev) ==
    /\ handler = "handle_once"
    /\ task = "loop"
    /\ LogPull(ev)
    /\ LET st == handle_once_event(
                     [final_text |-> final_text, tool_calls |-> tool_calls,
                      ret |-> None], ev)
       IN  /\ final_text' = st.final_text
           /\ tool_calls' = st.tool_calls
           /\ result' = st.ret
           /\ task' = IF IsSome(st.ret) THEN "exit" ELSE "loop"
    /\ UNCHANGED << reqVars, pc, submitted, response, text_seen, tool_seen,
                    output_items >>
    /\ UNCHANGED chanVars

\* one iteration of handle_responses_once's loop
ResponsesOnceNextEvent(ev) ==
    /\ handler = "handle_responses_once"
    /\ task = "loop"
    /\ LogPull(ev)
    /\ LET st == handle_responses_once_event(
                     [final_text |-> final_text, text_seen |-> text_seen,
                      output_items |-> output_items, ret |-> None], ev)
       IN  /\ final_text' = st.final_text
           /\ text_seen' = st.text_seen
           /\ output_items' = st.output_items
           /\ result' = st.ret
           /\ task' = IF IsSome(st.ret) THEN "exit" ELSE "loop"
    /\ UNCHANGED << reqVars, pc, submitted, response, tool_seen, tool_calls >>
    /\ UNCHANGED chanVars

\* one iteration of handle_stream's loop, up to its first send
StreamNextEvent(ev) ==
    /\ handler = "handle_stream"
    /\ task = "loop"
    /\ pending = <<>>
    /\ LogPull(ev)
    /\ LET st == handle_stream_event(
                     [tool_seen |-> tool_seen, conv_id |-> Unwrap(conv_id),
                      out |-> <<>>, brk |-> FALSE], ev)
       IN  /\ tool_seen' = st.tool_seen
           /\ pending' = st.out
           /\ task' = IF st.brk THEN "exit" ELSE "loop"
    /\ UNCHANGED << reqVars, pc, submitted, response, result, final_text,
                    text_seen, tool_calls, output_items, sent, taken, rx_alive >>

\* one iteration of handle_responses_stream's loop, up to its first send
ResponsesStreamNextEvent(ev) ==
    /\ handler = "handle_responses_stream"
    /\ task = "loop"
    /\ pending = <<>>
    /\ LogPull(ev)
    /\ LET st == handle_responses_stream_event(
                     [text_seen |-> text_seen, conv_id |-> Unwrap(conv_id),
                      out |-> <<>>, brk |-> FALSE], ev)
       IN  /\ text_seen' = st.text_seen
           /\ pending' = st.out
           /\ task' = IF st.brk THEN "exit" ELSE "loop"
    /\ UNCHANGED << reqVars, pc, submitted, response, result, final_text,
                    tool_seen, tool_calls, output_items, sent, taken, rx_alive >>

\* tx.send(..).await: enqueue when there is room, give up when the receiver
\* was dropped (the Err is ignored by `let _ =`), wait while the channel is full
\* mutant: a send that finds the receiver gone ends the task
Send_break_on_closed ==
    /\ pending # <<>>
    /\ IF rx_alive
       THEN /\ Len(sent) - taken < ChannelCapacity
            /\ sent' = Append(sent, Head(pending))
            /\ pending' = Tail(pending)
            /\ task' = task
       ELSE /\ sent' = sent
            /\ pending' = <<>>
            /\ task' = "exit"
    /\ UNCHANGED << reqVars, pc, submitted, result, response, taken,
                    rx_alive >>
    /\ UNCHANGED << accVars, logVars >>

Send ==
    /\ pending # <<>>
    /\ IF rx_alive
       THEN /\ Len(sent) - taken < ChannelCapacity
            /\ sent' = Append(sent, Head(pending))
       ELSE sent' = sent
    /\ pending' = Tail(pending)
    /\ UNCHANGED << reqVars, pc, submitted, task, result, response, taken,
                    rx_alive >>
    /\ UNCHANGED << accVars, logVars >>

\* the SSE writer takes the next element of the channel
Recv ==
    /\ rx_alive
    /\ taken < Len(sent)
    /\ taken' = taken + 1
    /\ UNCHANGED << reqVars, pc, submitted, task, result, response, pending,
                    sent, rx_alive >>
    /\ UNCHANGED << accVars, logVars >>

TaskRunning == task \in {"submit", "loop"} \/ pending # <<>>

\* the client goes away while the turn runs: the response stream, and rx
\* with it and with what the channel still buffers, is dropped
Disconnect ==
    /\ Streaming
    /\ pc = "done"
    /\ TaskRunning
    /\ rx_alive
    /\ rx_alive' = FALSE
    /\ taken' = Len(sent)
    /\ UNCHANGED << reqVars, pc, submitted, task, result, response, pending,
                    sent >>
    /\ UNCHANGED << accVars, logVars >>

Usage == [prompt_tokens |-> 0, completion_tokens |-> 0, total_tokens |-> 0]

\* handle_once after handle.await
ChatCompletionResponse(res, calls, original_model) ==
    IF ~res.ok
    THEN error_response(INTERNAL_SERVER_ERROR, res.error, "internal_error")
    ELSE json_response(OK,
           [object |-> "chat.completion",
            model |-> original_model,
            choices |-> <<[
                index |-> 0,
                message |-> [role |-> "assistant",
                             content |-> Trim(res.value),
                             tool_calls |-> IF calls = <<>> THEN None
                                            ELSE Some(calls)],
                finish_reason |-> IF calls # <<>> THEN "tool_calls"
                                  ELSE "stop"]>>,
            usage |-> Usage])

\* handle_responses_once after handle.await
ResponsesResponse(res, items, response_model, cid) ==
    IF ~res.ok
    THEN error_response(INTERNAL_SERVER_ERROR, res.error, "internal_error")
    ELSE json_response(OK,
           [id |-> ResponseId,
            object |-> "response",
            model |-> response_model,
            status |-> "completed",
            output |-> items,
            conversation_id |-> Some(cid)])

\* the aggregate handler joins the task and answers
Respond ==
    /\ Aggregate
    /\ pc = "await"
    /\ task = "exit"
    /\ IsSome(result)
    /\ pc' = "done"
    /\ response' = Some(
         IF handler = "handle_once"
         THEN ChatCompletionResponse(Unwrap(result), tool_calls,
                                     Unwrap(body).model)
         ELSE ResponsesResponse(Unwrap(result), output_items,
                                map_model(Unwrap(body).model), Unwrap(conv_id)))
    /\ UNCHANGED << reqVars, submitted, task, result >>
    /\ UNCHANGED << accVars, chanVars, logVars >>

Next ==
    \/ \E b \in ChatBodiesCore : HandleChatCompletions(b)
    \/ \E b \in ResponsesBodiesCore : HandleResponses(b)
    \/ \E config_ok, start_ok \in BOOLEAN : GetOrCreateThread(config_ok, start_ok)
    \/ \E ok \in BOOLEAN : Submit(ok)
    \/ EventError
    \/ \E ev \in Events : OnceNextEvent(ev)
    \/ \E ev \in Events : ResponsesOnceNextEvent(ev)
    \/ \E ev \in Events : StreamNextEvent(ev)
    \/ \E ev \in Events : ResponsesStreamNextEvent(ev)
    \/ Send
    \/ Recv
    \/ Disconnect
    \/ Respond

Spec == Init /\ [][Next]_vars

\* ------------------------------------------- the request-shape specification
\* The same handlers, given requests of every accepted shape and a session
\* that answers with one terminal event.
MaxMessages == 2

SeqsUpTo(S, n) == UNION {[1..k -> S] : k \in 0..n}

\* content values: strings, block lists (text or content key, a text that is
\* no string), null
ReqContents ==
    { JStr(<<" ">>), JStr(<<"hi">>), JNull,
      JArr(<<Block(Some(JStr(<<" ">>)), None), Block(None, Some(JStr(<<"\n">>)))>>),
      JArr(<<Block(Some(JNull), Some(JStr(<<"hi">>))), Block(None, Some(JStr(<<"yo">>)))>>) }

ReqInputs ==
    { None, Some(<<>>),
      Some(<<InputObject(None, Some(JStr(<<" ">>)), None),
             InputObject(Some(JStr(<<"user">>)), None, Some(JStr(<<"\n">>)))>>),
      Some(<<InputObject(None, None, Some(JStr(<<"hi">>)))>>) }

ReqInstructions == { None, Some(<<" ">>), Some(<<" ", "brief">>) }

ReqConversationIds == { None, Some("thread-1") }

\* references that resolve to no session: a well-formed identifier the manager
\* does not know, and a string that is no identifier
ReqBadConversationIds == { Some("thread-3"), Some("nope") }

ChatBodiesReq ==
    { ChatBody(Gpt4oUpper, msgs, input, instr, st, cid) :
        msgs \in {None} \cup
                 {Some(ms) : ms \in SeqsUpTo({ChatMessage(UserRole, c) :
                                                c \in ReqContents}, MaxMessages)},
        input \in ReqInputs, instr \in ReqInstructions, st \in BOOLEAN,
        cid \in ReqConversationIds }
    \cup
    { ChatBody(Gpt4oUpper, Some(<<ChatMessage(UserRole, JStr(<<"hi">>))>>),
               None, None, st, cid) :
        st \in BOOLEAN, cid \in ReqBadConversationIds }

ReqItems ==
    { MessageItem(UserRole, <<InputText(<<" ">>)>>),
      MessageItem(UserRole, <<OutputText(<<>>), InputText(<<"\n">>)>>),
      MessageItem(UserRole, <<InputImage>>),
      MessageItem(UserRole, <<InputText(<<"hi">>)>>),
      ReasoningItem }

ResponsesBodiesReq ==
    { ResponsesBody(Gpt4oUpper, input, instr, st, cid) :
        input \in SeqsUpTo(ReqItems, MaxMessages),
        instr \in ReqInstructions, st \in BOOLEAN,
        cid \in ReqConversationIds }
    \cup
    { ResponsesBody(Gpt4oUpper, <<MessageItem(UserRole, <<InputText(<<"hi">>)>>)>>,
                    None, st, cid) :
        st \in BOOLEAN, cid \in ReqBadConversationIds }

EventsReq ==
    { Event(SubmissionId, TurnComplete(Some(<<"ok">>))),
      Event(SubmissionId, ErrorEvent(<<"boom">>)) }

NextReq ==
    \/ \E b \in ChatBodiesReq : HandleChatCompletions(b)
    \/ \E b \in ResponsesBodiesReq : HandleResponses(b)
    \/ \E config_ok, start_ok \in BOOLEAN : GetOrCreateThread(config_ok, start_ok)
    \/ \E ok \in BOOLEAN : Submit(ok)
    \/ EventError
    \/ \E ev \in EventsReq : OnceNextEvent(ev)
    \/ \E ev \in EventsReq : ResponsesOnceNextEvent(ev)
    \/ \E ev \in EventsReq : StreamNextEvent(ev)
    \/ \E ev \in EventsReq : ResponsesStreamNextEvent(ev)
    \/ Send
    \/ Recv
    \/ Disconnect
    \/ Respond

SpecReq == Init /\ [][NextReq]_vars

\* -------------------------------------- the pure-forwarding proxy
\* main_modelclient.rs: no session and no request ids; the handler reads the
\* model client's response stream until it ends. Its functions carry the
\* prefix mc_ where main.rs has one of the same name.
MCBody(model, messages, stream, conversation_id) ==
    [model |-> model, messages |-> messages, stream |-> stream,
     conversation_id |-> conversation_id]

MCBodies ==
    { MCBody(Gpt4oUpper, msgs, st, None) :
        msgs \in {None, Some(<<ChatMessage(UserRole, JStr(<<"hi">>))>>),
                  Some(<<ChatMessage(UserRole, JStr(<<" ">>))>>)},
        st \in BOOLEAN }

mc_merged_text_from_request(req) ==
    IF IsSome(req.messages) THEN merge_messages(Unwrap(req.messages))
    ELSE None

mc_map_tool_call(item) ==
    IF item.type = "FunctionCall"
    THEN Some(ToolCall(item.call_id, item.name, item.arguments))
    ELSE None

mc_stream_chunk(content, tool_call, done, model) ==
    [type |-> "chat.completion.chunk",
     delta |-> ChunkDelta(content, tool_call),
     finish_reason |-> None,
     model |-> model]

mc_stream_chunk_with_finish(content, tool_call, finish_reason, model) ==
    [type |-> "chat.completion.chunk",
     delta |-> ChunkDelta(content, tool_call),
     finish_reason |-> Some(finish_reason),
     model |-> model]

\* ResponseEvent, and the end of the response stream (stream.next() is None)
ResponseItemEvent(item) == [kind |-> "ResponseItem", item |-> item]
TextDelta(d) == [kind |-> "TextDelta", delta |-> d]
ApiError(e) == [kind |-> "Error", error |-> e]
Created == [kind |-> "Created"]
StreamEnd == [kind |-> "StreamEnd"]

ApiEvents ==
    { ResponseItemEvent(FunctionCallItem), ResponseItemEvent(CustomToolCallItem),
      ResponseItemEvent(ReasoningItem), TextDelta(<<"Hel">>), TextDelta(<<"lo">>),
      ApiError(<<"boom">>), Created, StreamEnd }

\* handle_once of the forwarding proxy: one step of `while let Some(event)`,
\* and the response built when the stream ends
mc_handle_once_event(st, ev) ==
    CASE ev.kind = "ResponseItem" ->
            LET tc == mc_map_tool_call(ev.item)
            IN  IF IsSome(tc)
                THEN [st EXCEPT !.tool_calls = Append(@, Unwrap(tc))]
                ELSE st
      [] ev.kind = "TextDelta" ->
            [st EXCEPT !.final_text = @ \o ev.delta]
      [] ev.kind = "Error" ->
            [st EXCEPT !.ret = Some(error_response(INTERNAL_SERVER_ERROR,
                                                   ev.error, "api_error"))]
      [] ev.kind = "StreamEnd" ->
            [st EXCEPT !.ret = Some(json_response(OK,
                [object |-> "chat.completion",
                 model |-> st.original_model,
                 choices |-> <<[
                     index |-> 0,
                     message |-> [role |-> "assistant",
                                  content |-> st.final_text,
                                  tool_calls |-> IF st.tool_calls = <<>> THEN None
                                                 ELSE Some(st.tool_calls)],
                     finish_reason |-> IF st.tool_calls # <<>> THEN "tool_calls"
                                       ELSE "stop"]>>,
                 usage |-> Usage]))]
      [] OTHER -> st

\* the task of the forwarding proxy's handle_stream
\* mutant: the error element is followed by [DONE]
mc_handle_stream_event_error_done(st, ev) ==
    CASE ev.kind = "ResponseItem" ->
            LET tc == mc_map_tool_call(ev.item)
            IN  IF IsSome(tc)
                THEN [st EXCEPT !.has_tool_calls = TRUE,
                                !.out = Append(@, Ok(mc_stream_chunk(
                                            None, tc, FALSE, st.model)))]
                ELSE st
      [] ev.kind = "TextDelta" ->
            [st EXCEPT !.out = Append(@, Ok(mc_stream_chunk(
                                        Some(ev.delta), None, FALSE, st.model)))]
      [] ev.kind = "Error" ->
            [st EXCEPT !.out = @ \o <<Err(ev.error), Ok(DoneMarker)>>,
                       !.brk = TRUE]
      [] ev.kind = "StreamEnd" ->
            LET finish_reason == IF st.has_tool_calls THEN "tool_calls" ELSE "stop"
            IN  [st EXCEPT
                   !.out = @ \o <<Ok(mc_stream_chunk_with_finish(
                                        None, None, finish_reason, st.model)),
                                  Ok(DoneMarker)>>,
                   !.brk = TRUE]
      [] OTHER -> st

mc_handle_stream_event(st, ev) ==
    CASE ev.kind = "ResponseItem" ->
            LET tc == mc_map_tool_call(ev.item)
            IN  IF IsSome(tc)
                THEN [st EXCEPT !.has_tool_calls = TRUE,
                                !.out = Append(@, Ok(mc_stream_chunk(
                                            None, tc, FALSE, st.model)))]
                ELSE st
      [] ev.kind = "TextDelta" ->
            [st EXCEPT !.out = Append(@, Ok(mc_stream_chunk(
                                        Some(ev.delta), None, FALSE, st.model)))]
      [] ev.kind = "Error" ->
            [st EXCEPT !.out = Append(@, Err(ev.error)), !.brk = TRUE]
      [] ev.kind = "StreamEnd" ->
            LET finish_reason == IF st.has_tool_calls THEN "tool_calls" ELSE "stop"
            IN  [st EXCEPT
                   !.out = @ \o <<Ok(mc_stream_chunk_with_finish(
                                        None, None, finish_reason, st.model)),
                                  Ok(DoneMarker)>>,
                   !.brk = TRUE]
      [] OTHER -> st

\* POST /v1/chat/completions of the forwarding proxy
MCHandleChatCompletions(b) ==
    Normalised(IF b.stream THEN "mc_handle_stream" ELSE "mc_handle_once", b,
               mc_merged_text_from_request(b))

\* get_model_info, ModelProviderInfo::from_model_info and model_client.stream:
\* the first that fails answers 500; then the streaming handler spawns its task
MCOpenStream(info_ok, provider_ok, stream_ok) ==
    /\ handler \in {"mc_handle_once", "mc_handle_stream"}
    /\ pc = "resolve"
    /\ IF ~(info_ok /\ provider_ok /\ stream_ok)
       THEN /\ pc' = "done"
            /\ task' = task
            /\ response' = Some(error_response(
                   INTERNAL_SERVER_ERROR,
                   IF ~info_ok THEN <<"Unknown model: ">>
                   ELSE IF ~provider_ok THEN <<"provider: ", "invalid">>
                   ELSE <<"stream: ", "failed">>,
                   "internal_error"))
       ELSE /\ task' = "loop"
            /\ IF handler = "mc_handle_once"
               THEN pc' = "await" /\ response' = response
               ELSE pc' = "done" /\ response' = Some(SseResponse)
    /\ UNCHANGED << reqVars, submitted, result >>
    /\ UNCHANGED << accVars, chanVars, logVars >>

MCLogPull(ev) ==
    /\ Len(ownlog) < MaxEvents
    /\ ownlog' = Append(ownlog, ev)
    /\ pulls' = pulls + 1
    /\ nForeign' = nForeign

\* stream.next().await in handle_once
MCOnceNextEvent(ev) ==
    /\ handler = "mc_handle_once"
    /\ task = "loop"
    /\ MCLogPull(ev)
    /\ LET st == mc_handle_once_event(
                     [final_text |-> final_text, tool_calls |-> tool_calls,
                      original_model |-> Unwrap(body).model, ret |-> None], ev)
       IN  /\ final_text' = st.final_text
           /\ tool_calls' = st.tool_calls
           /\ response' = st.ret
           /\ task' = IF IsSome(st.ret) THEN "exit" ELSE "loop"
           /\ pc' = IF IsSome(st.ret) THEN "done" ELSE pc
    /\ UNCHANGED << reqVars, submitted, result, text_seen, tool_seen,
                    output_items >>
    /\ UNCHANGED chanVars

\* stream.next().await in the task of handle_stream, up to its first send
MCStreamNextEvent(ev) ==
    /\ handler = "mc_handle_stream"
    /\ task = "loop"
    /\ pending = <<>>
    /\ MCLogPull(ev)
    /\ LET st == mc_handle_stream_event(
                     [has_tool_calls |-> tool_seen, model |-> Unwrap(body).model,
                      out |-> <<>>, brk |-> FALSE], ev)
       IN  /\ tool_seen' = st.has_tool_calls
           /\ pending' = st.out
           /\ task' = IF st.brk THEN "exit" ELSE "loop"
    /\ UNCHANGED << reqVars, pc, submitted, response, result, final_text,
                    text_seen, tool_calls, output_items, sent, taken, rx_alive >>

NextMC ==
    \/ \E b \in MCBodies : MCHandleChatCompletions(b)
    \/ \E info_ok, provider_ok, stream_ok \in BOOLEAN :
          MCOpenStream(info_ok, provider_ok, stream_ok)
    \/ \E ev \in ApiEvents : MCOnceNextEvent(ev)
    \/ \E ev \in ApiEvents : MCStreamNextEvent(ev)
    \/ Send
    \/ Recv
    \/ Disconnect

SpecMC == Init /\ [][NextMC]_vars

\* ------------------------------------------- two calls against one session
\* A second call (the peer) resumes the session this call runs on. Both tasks
\* hold the same thread and both call thread.next_event(): the session has one
\* event stream, and an event handed to one caller is not handed to the other.
MaxPairEvents == 4

PairBodies ==
    { ChatBody(Gpt4oUpper, Some(<<ChatMessage(UserRole, JStr(<<"hi">>))>>),
               None, None, st, Some("thread-1")) : st \in BOOLEAN }

PairMsgs == { AgentMessageDelta(<<"Hel">>), TurnComplete(None) }
PairEvents == { Event(id, m) : id \in {SubmissionId, ForeignId}, m \in PairMsgs }

\* the peer's Turn Request; its id is a foreign id to this call
PeerSubmission ==
    [id |-> ForeignId,
     op |-> [type |-> "UserTurn",
             items |-> <<[type |-> "Text", text |-> <<"hi">>]>>,
             approval_policy |-> "Never",
             sandbox_policy |-> "ReadOnly",
             model |-> map_model(Gpt4oUpper)]]

\* the peer's handler has resolved the same session and spawned its task
PeerCall ==
    /\ peer.task = "none"
    /\ "thread-1" \in threads
    /\ peer' = [peer EXCEPT !.task = "submit"]
    /\ UNCHANGED << handler, body, pc, merged_text, conv_id, threads, submitted,
                    task, result, response, events, evTaken >>
    /\ UNCHANGED << accVars, chanVars, logVars >>

\* the peer's thread.submit_with_id(submission).await
PeerSubmit ==
    /\ peer.task = "submit"
    /\ submitted' = Append(submitted, PeerSubmission)
    /\ peer' = [peer EXCEPT !.task = "loop"]
    /\ UNCHANGED << handler, body, pc, merged_text, conv_id, threads, task,
                    result, response, events, evTaken >>
    /\ UNCHANGED << accVars, chanVars, logVars >>

TerminalEmitted(id) ==
    \E i \in 1..Len(events) : events[i].id = id /\ IsTerminal(events[i].msg)

\* the session emits the next event of a turn it was given; a turn's terminal
\* event is its last
SessionEmits(ev) ==
    /\ \E i \in 1..Len(submitted) : submitted[i].id = ev.id
    /\ ~TerminalEmitted(ev.id)
    /\ Len(events) < MaxPairEvents
    /\ events' = Append(events, ev)
    /\ UNCHANGED << handler, body, pc, merged_text, conv_id, threads, submitted,
                    task, result, response, evTaken, peer >>
    /\ UNCHANGED << accVars, chanVars, logVars >>

\* thread.next_event().await on the shared stream: the oldest event not yet
\* pulled, which the call takes from the stream
NextEventReady == evTaken < Len(events)
NextSessionEvent == events[evTaken + 1]

PairLogPull(ev) ==
    /\ evTaken' = evTaken + 1
    /\ pulls' = pulls + 1
    /\ IF ev.id = SubmissionId
       THEN ownlog' = Append(ownlog, ev.msg) /\ nForeign' = nForeign
       ELSE ownlog' = ownlog /\ nForeign' = nForeign + 1

\* one iteration of handle_once's loop on the shared stream
PairOnceNextEvent ==
    /\ handler = "handle_once"
    /\ task = "loop"
    /\ NextEventReady
    /\ PairLogPull(NextSessionEvent)
    /\ LET st == handle_once_event(
                     [final_text |-> final_text, tool_calls |-> tool_calls,
                      ret |-> None], NextSessionEvent)
       IN  /\ final_text' = st.final_text
           /\ tool_calls' = st.tool_calls
           /\ result' = st.ret
           /\ task' = IF IsSome(st.ret) THEN "exit" ELSE "loop"
    /\ UNCHANGED << handler, body, pc, merged_text, conv_id, threads, submitted,
                    response, text_seen, tool_seen, output_items, events, peer >>
    /\ UNCHANGED chanVars

\* one iteration of handle_stream's loop on the shared stream
PairStreamNextEvent ==
    /\ handler = "handle_stream"
    /\ task = "loop"
    /\ pending = <<>>
    /\ NextEventReady
    /\ PairLogPull(NextSessionEvent)
    /\ LET st == handle_stream_event(
                     [tool_seen |-> tool_seen, conv_id |-> Unwrap(conv_id),
                      out |-> <<>>, brk |-> FALSE], NextSessionEvent)
       IN  /\ tool_seen' = st.tool_seen
           /\ pending' = st.out
           /\ task' = IF st.brk THEN "exit" ELSE "loop"
    /\ UNCHANGED << handler, body, pc, merged_text, conv_id, threads, submitted,
                    response, result, final_text, text_seen, tool_calls,
                    output_items, sent, taken, rx_alive, events, peer >>

\* the event as the peer's id filter sees it: its own id is ForeignId
AsSeenByPeer(ev) ==
    Event(IF ev.id = ForeignId THEN SubmissionId ELSE ForeignId, ev.msg)

\* one iteration of the peer's loop (handle_once) on the shared stream
PeerNextEvent ==
    /\ peer.task = "loop"
    /\ NextEventReady
    /\ evTaken' = evTaken + 1
    /\ LET st == handle_once_event(
                     [final_text |-> peer.final_text,
                      tool_calls |-> peer.tool_calls, ret |-> None],
                     AsSeenByPeer(NextSessionEvent))
       IN  peer' = [task |-> IF IsSome(st.ret) THEN "exit" ELSE "loop",
                    final_text |-> st.final_text,
                    tool_calls |-> st.tool_calls,
                    result |-> st.ret]
    /\ UNCHANGED << handler, body, pc, merged_text, conv_id, threads, submitted,
                    task, result, response, events >>
    /\ UNCHANGED << accVars, chanVars, logVars >>

NextPair ==
    \/ \E b \in PairBodies : HandleChatCompletions(b)
    \/ GetOrCreateThread(TRUE, TRUE)
    \/ Submit(TRUE)
    \/ PeerCall
    \/ PeerSubmit
    \/ \E ev \in PairEvents : SessionEmits(ev)
    \/ PairOnceNextEvent
    \/ PairStreamNextEvent
    \/ PeerNextEvent
    \/ Send
    \/ Recv
    \/ Respond

\* every task that can take a step eventually takes it
SpecPair ==
    /\ Init
    /\ [][NextPair]_vars
    /\ WF_vars(PairOnceNextEvent)
    /\ WF_vars(PairStreamNextEvent)
    /\ WF_vars(PeerNextEvent)
    /\ WF_vars(Send)
    /\ WF_vars(Respond)

\* ------------------------------------------------ a turn of many events
\* The streaming handlers on a turn long enough to fill the channel.
MaxChanEvents == 17

ChanBodies ==
    { ChatBody(Gpt4oUpper, Some(<<ChatMessage(UserRole, JStr(<<"hi">>))>>),
               None, None, TRUE, None) }
ChanResponsesBodies ==
    { ResponsesBody(Gpt4oUpper, <<MessageItem(UserRole, <<InputText(<<"hi">>)>>)>>,
                    None, TRUE, None) }

ChanEvents ==
    { Event(SubmissionId, AgentMessageDelta(<<"Hel">>)),
      Event(SubmissionId, TurnComplete(None)) }

ChanLogPull(ev) ==
    /\ Len(ownlog) < MaxChanEvents
    /\ ownlog' = Append(ownlog, ev.msg)
    /\ nForeign' = nForeign
    /\ pulls' = pulls + 1

\* one iteration of handle_stream's loop, up to its first send
ChanStreamNextEvent(ev) ==
    /\ handler = "handle_stream"
    /\ task = "loop"
    /\ pending = <<>>
    /\ ChanLogPull(ev)
    /\ LET st == handle_stream_event(
                     [tool_seen |-> tool_seen, conv_id |-> Unwrap(conv_id),
                      out |-> <<>>, brk |-> FALSE], ev)
       IN  /\ tool_seen' = st.tool_seen
           /\ pending' = st.out
           /\ task' = IF st.brk THEN "exit" ELSE "loop"
    /\ UNCHANGED << reqVars, pc, submitted, response, result, final_text,
                    text_seen, tool_calls, output_items, sent, taken, rx_alive >>

\* one iteration of handle_responses_stream's loop, up to its first send
ChanResponsesStreamNextEvent(ev) ==
    /\ handler = "handle_responses_stream"
    /\ task = "loop"
    /\ pending = <<>>
    /\ ChanLogPull(ev)
    /\ LET st == handle_responses_stream_event(
                     [text_seen |-> text_seen, conv_id |-> Unwrap(conv_id),
                      out |-> <<>>, brk |-> FALSE], ev)
       IN  /\ text_seen' = st.text_seen
           /\ pending' = st.out
           /\ task' = IF st.brk THEN "exit" ELSE "loop"
    /\ UNCHANGED << reqVars, pc, submitted, response, result, final_text,
                    tool_seen, tool_calls, output_items, sent, taken, rx_alive >>

NextChan ==
    \/ \E b \in ChanBodies : HandleChatCompletions(b)
    \/ \E b \in ChanResponsesBodies : HandleResponses(b)
    \/ GetOrCreateThread(TRUE, TRUE)
    \/ Submit(TRUE)
    \/ \E ev \in ChanEvents : ChanStreamNextEvent(ev)
    \/ \E ev \in ChanEvents : ChanResponsesStreamNextEvent(ev)
    \/ Send
    \/ Recv
    \/ Disconnect

SpecChan == Init /\ [][NextChan]_vars

\* --------------------------------------------------------- observations
Last(s) == s[Len(s)]
Front(s) == SubSeq(s, 1, Len(s) - 1)

\* everything the task has handed to tx.send so far, when nothing was dropped
Emitted == sent \o pending

\* the task has returned and its last send has completed
TaskTerminated == task = "exit" /\ pending = <<>>

\* how the task ended
PullFailed == pulls > Len(ownlog) + nForeign
SubmitFailed == task = "exit" /\ submitted = <<>>
EndedBy(kind) ==
    /\ task = "exit"
    /\ ~PullFailed
    /\ ownlog # <<>>
    /\ Last(ownlog).kind = kind
Completed == EndedBy("TurnComplete")

IsDone(e) == e.ok /\ e.value.type = "[DONE]"
IsChunk(e) == e.ok /\ e.value.type = "chat.completion.chunk"
IsFinishChunk(e) == IsChunk(e) /\ IsSome(e.value.finish_reason)
IsContentChunk(e) == IsChunk(e) /\ IsSome(e.value.delta.content)
IsToolChunk(e) == IsChunk(e) /\ IsSome(e.value.delta.tool_calls)
IsCreated(e) == e.ok /\ e.value.type = "response.created"
IsTextDelta(e) == e.ok /\ e.value.type = "response.output_text.delta"
IsItemDone(e) == e.ok /\ e.value.type = "response.output_item.done"
IsCompleted(e) == e.ok /\ e.value.type = "response.completed"
IsError(e) == ~e.ok

Count(P(_), s) == Cardinality({i \in 1..Len(s) : P(s[i])})

\* the sub-sequence of s whose elements satisfy P
RECURSIVE Select(_, _)
Select(P(_), s) ==
    IF s = <<>> THEN <<>>
    ELSE (IF P(Head(s)) THEN <<Head(s)>> ELSE <<>>) \o Select(P, Tail(s))

\* the text a stream carries: its content chunks / output_text.delta events,
\* concatenated in arrival order
ElementText(e) ==
    IF IsContentChunk(e) THEN Unwrap(e.value.delta.content)
    ELSE IF IsTextDelta(e) THEN e.value.delta
    ELSE <<>>

RECURSIVE StreamedText(_)
StreamedText(s) ==
    IF s = <<>> THEN <<>> ELSE ElementText(Head(s)) \o StreamedText(Tail(s))

\* the own-id events of a log, by kind
IsDeltaMsg(m) == m.kind = "AgentMessageDelta"
IsItemMsg(m) == m.kind = "RawResponseItem"
IsToolItemMsg(m) ==
    m.kind = "RawResponseItem" /\ m.item.type \in {"FunctionCall", "CustomToolCall"}

RECURSIVE DeltaConcat(_)
DeltaConcat(log) ==
    IF log = <<>> THEN <<>> ELSE Head(log).delta \o DeltaConcat(Tail(log))

\* each handler's loop run over a log of own-id events
RECURSIVE FoldEvents(_, _, _)
FoldEvents(step(_, _), st, log) ==
    IF log = <<>> THEN st
    ELSE FoldEvents(step, step(st, Event(SubmissionId, Head(log))), Tail(log))

OnceRun(log) ==
    FoldEvents(handle_once_event,
               [final_text |-> <<>>, tool_calls |-> <<>>, ret |-> None], log)

ResponsesOnceRun(log) ==
    FoldEvents(handle_responses_once_event,
               [final_text |-> <<>>, text_seen |-> FALSE, output_items |-> <<>>,
                ret |-> None], log)

StreamRun(log, cid) ==
    FoldEvents(handle_stream_event,
               [tool_seen |-> FALSE, conv_id |-> cid, out |-> <<>>,
                brk |-> FALSE], log)

ResponsesStreamRun(log, cid) ==
    FoldEvents(handle_responses_stream_event,
               [text_seen |-> FALSE, conv_id |-> cid, out |-> <<>>,
                brk |-> FALSE], log)

\* the aggregate answer to a successful turn
ResponseOk == IsSome(response) /\ Unwrap(response).status = OK
Choice == Unwrap(response).body.choices[1]

\* ----------------------------------------------------------------- claims

\* C1 (part): a step that pulls a foreign-id event changes no accumulator, no
\* flag, no task result, and puts nothing on the channel.
ForeignEventFrame ==
    nForeign' # nForeign =>
        UNCHANGED << accVars, result, task, response, pending, sent >>

\* C1 (part): whatever foreign events were interleaved, each handler's buffers,
\* flags, result and emitted chunks are those its loop computes from the own-id
\* events alone.
OwnEventsDetermine ==
    /\ (handler = "handle_once" /\ task \in {"loop", "exit"} /\ ~SubmitFailed) =>
          LET r == OnceRun(ownlog)
          IN  /\ final_text = r.final_text
              /\ tool_calls = r.tool_calls
              /\ (~PullFailed => result = r.ret)
    /\ (handler = "handle_responses_once" /\ task \in {"loop", "exit"}
            /\ ~SubmitFailed) =>
          LET r == ResponsesOnceRun(ownlog)
          IN  /\ final_text = r.final_text
              /\ text_seen = r.text_seen
              /\ output_items = r.output_items
              /\ (~PullFailed => result = r.ret)
    /\ (handler = "handle_stream" /\ task \in {"loop", "exit"} /\ ~SubmitFailed) =>
          LET r == StreamRun(ownlog, Unwrap(conv_id))
          IN  /\ tool_seen = r.tool_seen
              /\ (rx_alive /\ ~PullFailed => Emitted = r.out)
    /\ (handler = "handle_responses_stream" /\ task \in {"loop", "exit"}
            /\ ~SubmitFailed) =>
          LET r == ResponsesStreamRun(ownlog, Unwrap(conv_id))
          IN  /\ text_seen = r.text_seen
              /\ (rx_alive /\ ~PullFailed =>
                    Emitted = <<Ok(response_created_event(ResponseId, conv_id))>>
                                  \o r.out)

\* C1: isolation by id. In all four handlers an event whose id differs from the
\* Turn Request's id changes nothing in the turn and produces no chunk, and the
\* call's output is a function of its own-id events only.
C1_IsolationById == [][ForeignEventFrame]_vars /\ []OwnEventsDetermine

\* a chat aggregate call answered with text after pulling own-id events and a
\* foreign-id event of the other turn on the session
C1_Witness ==
    /\ handler = "handle_once"
    /\ nForeign >= 1
    /\ Len(ownlog) >= 2
    /\ pc = "done"
    /\ ResponseOk
    /\ Choice.message.content # <<>>

DeltasThenComplete ==
    /\ Completed
    /\ \A i \in 1..(Len(ownlog) - 1) : IsDeltaMsg(ownlog[i])

\* C2: overwrite rule. After own-id text deltas and a turn-complete that carries
\* a final message, the chat aggregate content is the trimmed final message, not
\* the concatenation of the deltas.
C2_OverwriteRule ==
    (/\ handler = "handle_once"
     /\ pc = "done"
     /\ DeltasThenComplete
     /\ IsSome(Last(ownlog).last_agent_message)) =>
        LET final == Trim(Unwrap(Last(ownlog).last_agent_message))
            concat == DeltaConcat(Front(ownlog))
        IN  /\ ResponseOk
            /\ Choice.message.content = final
            /\ (Trim(concat) # final => Choice.message.content # Trim(concat))

C2_Witness ==
    /\ handler = "handle_once"
    /\ pc = "done"
    /\ DeltasThenComplete
    /\ Len(ownlog) = 3
    /\ IsSome(Last(ownlog).last_agent_message)
    /\ ResponseOk
    /\ Choice.message.content # Trim(DeltaConcat(Front(ownlog)))

\* C3: after own-id text deltas and a turn-complete without a final message,
\* the chat aggregate content is the trimmed concatenation of the deltas in
\* receipt order, and the finish reason is "stop".
C3_DeltaConcatenation ==
    (/\ handler = "handle_once"
     /\ pc = "done"
     /\ DeltasThenComplete
     /\ Last(ownlog).last_agent_message = None) =>
        /\ ResponseOk
        /\ Choice.message.content = Trim(DeltaConcat(Front(ownlog)))
        /\ Choice.finish_reason = "stop"

\* deltas "Hel", "lo", then turn-complete with no final message: "Hello", "stop"
C3_Witness ==
    /\ handler = "handle_once"
    /\ pc = "done"
    /\ ownlog = << AgentMessageDelta(<<"Hel">>), AgentMessageDelta(<<"lo">>),
                   TurnComplete(None) >>
    /\ ResponseOk
    /\ Choice.message.content = <<"Hel", "lo">>
    /\ Choice.finish_reason = "stop"

ToolItemOccurred(log) == \E i \in 1..Len(log) : IsToolItemMsg(log[i])
ExpectedFinishReason(log) ==
    IF ToolItemOccurred(log) THEN "tool_calls" ELSE "stop"

\* C4: the finish reason of the chat aggregate response, and of the terminal
\* chunk of chat streaming, is "tool_calls" iff an own-id function-call or
\* custom-tool-call item occurred before the turn-complete, text or no text;
\* otherwise it is "stop".
C4_FinishReason ==
    /\ (handler = "handle_once" /\ pc = "done" /\ Completed) =>
          /\ ResponseOk
          /\ Choice.finish_reason = ExpectedFinishReason(ownlog)
    /\ handler = "handle_stream" =>
          /\ \A i \in 1..Len(Emitted) :
                IsFinishChunk(Emitted[i]) =>
                    /\ Completed
                    /\ Emitted[i].value.finish_reason
                           = Some(ExpectedFinishReason(ownlog))
          /\ (Completed /\ rx_alive /\ TaskTerminated) =>
                Count(IsFinishChunk, sent) = 1

\* a function call and no text: finish reason "tool_calls", content ""
C4_Witness ==
    /\ handler = "handle_once"
    /\ pc = "done"
    /\ ownlog = << RawResponseItem(FunctionCallItem), TurnComplete(None) >>
    /\ ResponseOk
    /\ Choice.finish_reason = "tool_calls"
    /\ Choice.message.content = <<>>
    /\ Choice.message.tool_calls = Some(<<ToolCall("call_1", "lookup", "{}")>>)

\* the text the aggregate mode produces for a log of own-id events
\* a tool item reached the forwarding proxy's stream
MCToolItemOccurred(log) ==
    \E i \in 1..Len(log) :
        /\ log[i].kind = "ResponseItem"
        /\ log[i].item.type \in {"FunctionCall", "CustomToolCall"}

\* C4, as stated, on the pure-forwarding proxy: when the stream ends the finish
\* reason is "tool_calls" if and only if a function call or custom tool call
\* item occurred, in the aggregate response and in the terminal chunk.
C4_FinishReasonForwarding ==
    LET expected == IF MCToolItemOccurred(ownlog) THEN "tool_calls" ELSE "stop"
    IN  /\ (handler = "mc_handle_once" /\ ResponseOk) =>
              Choice.finish_reason = expected
        /\ (handler = "mc_handle_stream" /\ rx_alive) =>
              \A i \in 1..Len(sent) :
                  IsFinishChunk(sent[i]) =>
                      sent[i].value.finish_reason = Some(expected)

AggregateText(log) ==
    IF handler = "handle_stream"
    THEN Trim(OnceRun(log).final_text)
    ELSE Trim(ResponsesOnceRun(log).final_text)

\* C5: when a streamed turn has completed, the text of its chunks, concatenated
\* in arrival order, is the text the aggregate mode produces for the same events.
C5_StreamEqualsAggregate ==
    (Streaming /\ Completed /\ TaskTerminated /\ rx_alive) =>
        StreamedText(sent) = AggregateText(ownlog)

\* C6 as stated: every streamed session, however the turn ends, terminates
\* with exactly one [DONE] marker on the channel, and nothing is sent after it.
C6_AlwaysOneDone ==
    (Streaming /\ TaskTerminated /\ rx_alive) =>
        /\ Count(IsDone, sent) = 1
        /\ IsDone(Last(sent))

TurnFailed ==
    task = "exit" /\ (SubmitFailed \/ PullFailed \/ EndedBy("Error")
                          \/ EndedBy("TurnAborted"))

\* C6 (amended): a streamed session never carries more than one [DONE] marker
\* and nothing is sent after it; while the consumer stays connected, a turn that
\* ends by turn-complete ends its stream with exactly one [DONE], and a turn
\* that ends by a failure (error event, turn-aborted, submit failure, event-pull
\* failure) ends it with the error element and no [DONE].
C6_DoneOnlyOnCompletion ==
    Streaming =>
        /\ Count(IsDone, Emitted) <= 1
        /\ \A i \in 1..Len(Emitted) : IsDone(Emitted[i]) => i = Len(Emitted)
        /\ (TaskTerminated /\ rx_alive /\ Completed) =>
              Count(IsDone, sent) = 1 /\ IsDone(Last(sent))
        /\ (TaskTerminated /\ rx_alive /\ TurnFailed) =>
              Count(IsDone, sent) = 0 /\ IsError(Last(sent))

\* both endings of a stream with a connected consumer: [DONE] last after a
\* turn-complete (responses style), the error element last after an abort
C6_Witness ==
    /\ TaskTerminated
    /\ rx_alive
    /\ \/ /\ handler = "handle_responses_stream"
          /\ Completed
          /\ Len(ownlog) = 3
          /\ IsDone(Last(sent))
       \/ /\ handler = "handle_stream"
          /\ EndedBy("TurnAborted")
          /\ Len(sent) = 3
          /\ IsError(Last(sent))

\* a terminal signal on the channel: the finish chunk, response.completed,
\* the end-of-stream marker, or an error element
IsTerminalSignal(e) ==
    IsFinishChunk(e) \/ IsCompleted(e) \/ IsDone(e) \/ IsError(e)

\* C7 (part): the channel carries at most one terminal signal - one error
\* element, or one finish chunk / response.completed directly followed by
\* [DONE] - and nothing after it.
OneTerminalSignal ==
    LET n == Len(Emitted)
        first == CHOOSE i \in 1..n :
                     /\ IsTerminalSignal(Emitted[i])
                     /\ \A j \in 1..(i - 1) : ~IsTerminalSignal(Emitted[j])
    IN  (\E i \in 1..n : IsTerminalSignal(Emitted[i])) =>
            \/ IsError(Emitted[first]) /\ first = n
            \/ /\ IsFinishChunk(Emitted[first]) \/ IsCompleted(Emitted[first])
               /\ first + 1 = n
               /\ IsDone(Emitted[n])

\* C7 (part): once the task has returned (its Ok/Err result, or its last send),
\* it pulls no event, sends nothing, and changes neither result nor buffers.
NothingAfterTerminal ==
    (task = "exit") =>
        /\ UNCHANGED << task, result, pulls, ownlog, nForeign >>
        /\ UNCHANGED accVars
        /\ Len(sent') + Len(pending') <= Len(sent) + Len(pending)
        /\ \/ UNCHANGED << sent, pending >>
           \/ pending # <<>> /\ pending' = Tail(pending)

\* C7: per Turn Request the driver emits at most one terminal signal and
\* nothing after it, whatever events the session goes on to produce.
C7_OneTerminalSignal ==
    /\ [](rx_alive => OneTerminalSignal)
    /\ [](\A i \in 1..Len(sent) :
             (IsError(sent[i]) \/ IsDone(sent[i])) =>
                 i = Len(sent) /\ pending = <<>>)
    /\ [](IsSome(result) => task = "exit")
    /\ [][NothingAfterTerminal]_vars

\* a chat stream that ended on an error event after two chunks were sent
C7_Witness ==
    /\ handler = "handle_stream"
    /\ TaskTerminated
    /\ rx_alive
    /\ EndedBy("Error")
    /\ Len(sent) = 3
    /\ Count(IsTerminalSignal, sent) = 1

\* -- C8: what "only empty or whitespace" means, read off the request alone
BlankString(s) == \A i \in 1..Len(s) : IsWhitespace(s[i])
BlankOption(o) == IsSome(o) => BlankString(Unwrap(o))
BlankLeaf(v) == v.t = "String" => BlankString(v.s)
BlankBlock(v) ==
    CASE v.t = "String" -> BlankString(v.s)
      [] v.t = "Object" -> /\ IsSome(v.text) => BlankLeaf(Unwrap(v.text))
                           /\ IsSome(v.content) => BlankLeaf(Unwrap(v.content))
      [] OTHER -> TRUE
BlankContent(v) ==
    CASE v.t = "String" -> BlankString(v.s)
      [] v.t = "Array" -> \A i \in 1..Len(v.arr) : BlankBlock(v.arr[i])
      [] OTHER -> TRUE
BlankInputValue(v) ==
    CASE v.t = "String" -> BlankString(v.s)
      [] v.t = "Object" -> /\ IsSome(v.content) => BlankContent(Unwrap(v.content))
                           /\ IsSome(v.text) => BlankContent(Unwrap(v.text))
      [] OTHER -> TRUE
BlankItem(item) ==
    item.type = "Message" =>
        \A i \in 1..Len(item.content) :
            item.content[i].type \in {"InputText", "OutputText"} =>
                BlankString(item.content[i].text)

ChatHandler == handler \in {"handle_once", "handle_stream"}
ResponsesHandler == handler \in {"handle_responses_once", "handle_responses_stream"}

\* the request has no text that is not whitespace, in any of its shapes
BlankRequest ==
    LET b == Unwrap(body)
    IN  /\ handler # "none"
        /\ BlankOption(b.instructions)
        /\ ChatHandler =>
              /\ IsSome(b.messages) =>
                    \A i \in 1..Len(Unwrap(b.messages)) :
                        BlankContent(Unwrap(b.messages)[i].content)
              /\ IsSome(b.input) =>
                    \A i \in 1..Len(Unwrap(b.input)) :
                        BlankInputValue(Unwrap(b.input)[i])
        /\ ResponsesHandler =>
              \A i \in 1..Len(b.input) : BlankItem(b.input[i])

\* C8: a request whose content is only empty or whitespace in every accepted
\* shape yields no instruction and is answered 400 "invalid_request_error";
\* no session is resolved or created and no turn is submitted, streaming or not.
C8_BlankRequestRejected ==
    BlankRequest =>
        /\ merged_text = None
        /\ pc = "done"
        /\ IsSome(response)
        /\ Unwrap(response).status = 400
        /\ Unwrap(response).body.error.type = "invalid_request_error"
        /\ conv_id = None
        /\ threads = KnownThreads
        /\ submitted = <<>>
        /\ task = "none"
        /\ Emitted = <<>>
        /\ pulls = 0

\* a streaming chat request naming a known session, whose messages are blank
\* blocks and whose input items and instructions are blank
C8_Witness ==
    /\ handler = "handle_stream"
    /\ BlankRequest
    /\ Unwrap(body).conversation_id = Some("thread-1")
    /\ Unwrap(body).instructions = Some(<<" ">>)
    /\ IsSome(Unwrap(body).messages)
    /\ Len(Unwrap(body).messages[1]) = 2
    /\ Unwrap(body).messages[1][1].content.t = "Array"
    /\ IsSome(Unwrap(body).input)
    /\ Len(Unwrap(body).input[1]) = 2
    /\ IsSome(response)
    /\ Unwrap(response).status = 400

\* the finish reason the chat aggregate response gives for a log
OnceFinishReason(log) ==
    LET r == OnceRun(log)
    IN  ChatCompletionResponse(Unwrap(r.ret), r.tool_calls, Unwrap(body).model)
            .body.choices[1].finish_reason

\* the finish reasons carried by the chunks of a stream
FinishReasons(s) ==
    {Unwrap(s[i].value.finish_reason) : i \in {j \in 1..Len(s) : IsFinishChunk(s[j])}}

\* C9: for the same events of a completed turn, the chat aggregate response and
\* the terminal chunk of chat streaming carry the same finish reason, and the
\* stream carries it once.
C9_FinishReasonConsistent ==
    /\ (handler = "handle_once" /\ pc = "done" /\ Completed) =>
          LET out == StreamRun(ownlog, Unwrap(conv_id)).out
          IN  /\ Count(IsFinishChunk, out) = 1
              /\ FinishReasons(out) = {Choice.finish_reason}
    /\ (handler = "handle_stream" /\ Completed /\ rx_alive) =>
          /\ Count(IsFinishChunk, Emitted) = 1
          /\ FinishReasons(Emitted) = {OnceFinishReason(ownlog)}

\* a completed chat stream whose only tool item was a custom tool call
C9_Witness ==
    /\ handler = "handle_stream"
    /\ TaskTerminated
    /\ rx_alive
    /\ Completed
    /\ \E i \in 1..Len(ownlog) :
          ownlog[i] = RawResponseItem(CustomToolCallItem)
    /\ ~\E i \in 1..Len(ownlog) :
          ownlog[i] = RawResponseItem(FunctionCallItem)
    /\ FinishReasons(sent) = {"tool_calls"}

ItemOfElement(e) == IF IsItemDone(e) THEN <<e.value.item>> ELSE <<>>
ItemOfMsg(m) == IF IsItemMsg(m) THEN <<m.item>> ELSE <<>>

\* C10: a responses-style stream starts with response.created, enqueued before
\* the turn is submitted; on a successful turn follow only output_text.delta and
\* output_item.done elements, one output_item.done with the full item per own-id
\* structured item, then exactly one response.completed, then [DONE], last.
C10_ResponsesStreamOrder ==
    handler = "handle_responses_stream" =>
        /\ (task # "none") =>
              /\ Len(sent) >= 1
              /\ sent[1] = Ok(response_created_event(ResponseId, conv_id))
        /\ (submitted = <<>> /\ task # "exit") => Len(Emitted) <= 1
        /\ Count(IsCreated, Emitted) <= 1
        /\ (TaskTerminated /\ rx_alive /\ Completed) =>
              LET n == Len(sent)
              IN  /\ n >= 3
                  /\ IsCreated(sent[1])
                  /\ \A i \in 2..(n - 2) : IsTextDelta(sent[i]) \/ IsItemDone(sent[i])
                  /\ IsCompleted(sent[n - 1])
                  /\ IsDone(sent[n])
                  /\ FilterMap(ItemOfElement, sent) = FilterMap(ItemOfMsg, ownlog)

\* a completed responses stream with an item that is no tool call and a delta
C10_Witness ==
    /\ handler = "handle_responses_stream"
    /\ TaskTerminated
    /\ rx_alive
    /\ ownlog = << RawResponseItem(ReasoningItem), AgentMessageDelta(<<"Hel">>),
                   TurnComplete(None) >>
    /\ Len(sent) = 5
    /\ IsItemDone(sent[2])
    /\ IsTextDelta(sent[3])

\* the text events of a log and the text deltas of a stream, in order
TextOfMsg(m) ==
    IF m.kind = "AgentMessage" THEN Some(m.message)
    ELSE IF m.kind = "AgentMessageDelta" THEN Some(m.delta)
    ELSE None
TextOfElement(e) == IF IsTextDelta(e) THEN Some(e.value.delta) ELSE None

\* C11: in responses-style streaming, when turn-complete carries a final
\* message: if no message or delta of the turn was streamed before, exactly one
\* output_text.delta carrying the final message is emitted, directly before
\* response.completed; if text was streamed, no delta is emitted for it.
C11_FinalMessageSynthesis ==
    (/\ handler = "handle_responses_stream"
     /\ Completed
     /\ rx_alive
     /\ IsSome(Last(ownlog).last_agent_message)) =>
        LET final == Unwrap(Last(ownlog).last_agent_message)
            before == FilterMap(TextOfMsg, Front(ownlog))
            streamed == FilterMap(TextOfElement, Emitted)
            n == Len(Emitted)
        IN  IF before = <<>>
            THEN /\ streamed = <<final>>
                 /\ Emitted[n - 2] = Ok(response_output_text_delta_event(final))
                 /\ IsCompleted(Emitted[n - 1])
            ELSE streamed = before

\* text was streamed, then turn-complete carries a final message: no delta for it
C11_Witness ==
    /\ handler = "handle_responses_stream"
    /\ TaskTerminated
    /\ rx_alive
    /\ ownlog = << AgentMessageDelta(<<"Hel">>), AgentMessageDelta(<<"lo">>),
                   TurnComplete(Some(<<"Hel", "lo", " ">>)) >>
    /\ Count(IsTextDelta, sent) = 2
    /\ IsDone(Last(sent))

\* the shape of one chat chunk's delta
DeltaShapeOk(d) ==
    /\ ~(IsSome(d.content) /\ IsSome(d.tool_calls))
    /\ IsSome(d.tool_calls) =>
          /\ Len(Unwrap(d.tool_calls)) = 1
          /\ Unwrap(d.tool_calls)[1].index = 0

\* C12: chat-style chunk shape: a delta holds at most one of content and
\* tool_calls (a singleton list with index 0); finish_reason is null on every
\* chunk before the terminal chunk; the terminal chunk carries the computed
\* finish reason and an empty delta, and [DONE] follows it immediately.
C12_ChatChunkShape ==
    (handler = "handle_stream" /\ rx_alive) =>
        LET n == Len(Emitted)
        IN  /\ \A i \in 1..n :
                  IsChunk(Emitted[i]) => DeltaShapeOk(Emitted[i].value.delta)
            /\ \A i \in 1..n :
                  IsFinishChunk(Emitted[i]) =>
                      /\ Completed
                      /\ i = n - 1
                      /\ IsDone(Emitted[n])
                      /\ Emitted[i].value.delta = ChunkDelta(None, None)
                      /\ Emitted[i].value.finish_reason
                            = Some(ExpectedFinishReason(ownlog))
                      /\ \A j \in 1..(i - 1) :
                            /\ IsChunk(Emitted[j])
                            /\ Emitted[j].value.finish_reason = None
            /\ Completed => Count(IsFinishChunk, Emitted) = 1

\* a content chunk, a tool-call chunk, the terminal chunk, [DONE]
C12_Witness ==
    /\ handler = "handle_stream"
    /\ TaskTerminated
    /\ rx_alive
    /\ ownlog = << AgentMessageDelta(<<"Hel">>), RawResponseItem(FunctionCallItem),
                   TurnComplete(None) >>
    /\ Len(sent) = 4
    /\ IsContentChunk(sent[1])
    /\ IsToolChunk(sent[2])
    /\ IsFinishChunk(sent[3])
    /\ sent[3].value.finish_reason = Some("tool_calls")

\* the own-id events that were handled before the failure
EventsBeforeFailure ==
    IF EndedBy("Error") \/ EndedBy("TurnAborted") THEN Front(ownlog) ELSE ownlog

\* what the stream holds for them
ChunksBeforeFailure ==
    IF handler = "handle_stream"
    THEN StreamRun(EventsBeforeFailure, Unwrap(conv_id)).out
    ELSE <<Ok(response_created_event(ResponseId, conv_id))>>
            \o ResponsesStreamRun(EventsBeforeFailure, Unwrap(conv_id)).out

\* C13 (part): after a failure the stream holds the chunks of the earlier
\* events, in order, then exactly one error element, and no finish chunk,
\* response.completed or [DONE].
FailureShape ==
    (handler \in {"handle_stream", "handle_responses_stream"}
        /\ rx_alive /\ TurnFailed) =>
        /\ Count(IsError, Emitted) = 1
        /\ IsError(Last(Emitted))
        /\ Front(Emitted) = ChunksBeforeFailure
        /\ \A i \in 1..Len(Emitted) :
              ~(IsFinishChunk(Emitted[i]) \/ IsCompleted(Emitted[i])
                    \/ IsDone(Emitted[i]))

\* C13 (part): what is on the channel stays there, in its order
NotRetracted ==
    /\ Len(sent') >= Len(sent)
    /\ SubSeq(sent', 1, Len(sent)) = sent

\* C13: when submit fails, the event pull fails, or an own-id error or
\* turn-aborted event arrives, the driver sends exactly one error element and
\* nothing more; the chunks sent before stay on the channel in their order.
C13_StreamingFailure ==
    /\ []FailureShape
    /\ [][NotRetracted]_vars
    /\ [][(Streaming /\ TurnFailed) =>
             Len(sent') + Len(pending') <= Len(sent) + Len(pending)]_vars

\* a responses stream whose event pull failed after one delta was sent
C13_Witness ==
    /\ handler = "handle_responses_stream"
    /\ TaskTerminated
    /\ rx_alive
    /\ PullFailed
    /\ Len(sent) = 3
    /\ IsCreated(sent[1])
    /\ IsTextDelta(sent[2])
    /\ IsError(sent[3])

\* the fragments of a text
Fragments(s) == {s[i] : i \in 1..Len(s)}

\* C14: aggregate mode never partially emits: when the turn fails (submit,
\* event pull, own-id error event, own-id turn-aborted) after text and tool
\* calls were accumulated, the response is an error envelope with status 500
\* and type "internal_error", holding none of the accumulated text or calls.
C14_NoPartialEmit ==
    (handler \in {"handle_once", "handle_responses_once"}
        /\ pc = "done" /\ TurnFailed) =>
        LET r == Unwrap(response)
        IN  /\ IsSome(response)
            /\ r.status = 500
            /\ DOMAIN r.body = {"error"}
            /\ DOMAIN r.body.error = {"message", "type"}
            /\ r.body.error.type = "internal_error"
            /\ r.body.error.message \in
                  { <<"submit error: ", "closed">>, <<"event error: ", "closed">>,
                    <<"Codex error: ", "boom">>, <<"Turn aborted: ", "Interrupted">> }
            /\ Fragments(r.body.error.message) \cap Fragments(final_text) = {}

\* a chat aggregate turn aborted after text and a tool call were accumulated
C14_Witness ==
    /\ handler = "handle_once"
    /\ pc = "done"
    /\ EndedBy("TurnAborted")
    /\ final_text = <<"Hel">>
    /\ Len(tool_calls) = 1
    /\ Unwrap(response).status = 500

\* C15: every successful aggregate response (chat and responses endpoints)
\* carries in its model field the model name exactly as the caller supplied
\* it, not the name normalised through the alias table.
C15_OriginalModel ==
    (handler \in {"handle_once", "handle_responses_once"} /\ ResponseOk) =>
        Unwrap(response).body.model = Unwrap(body).model

\* C15 on the chat endpoint alone, where it holds
C15_ChatOriginalModel ==
    (handler = "handle_once" /\ ResponseOk) =>
        /\ Unwrap(response).body.model = Unwrap(body).model
        /\ Unwrap(response).body.model # map_model(Unwrap(body).model)

\* the call created a session: no reference was supplied and resolution gave one
CreatedSession ==
    /\ IsSome(body)
    /\ Unwrap(body).conversation_id = None
    /\ IsSome(conv_id)
    /\ Unwrap(conv_id) \in threads \ KnownThreads

\* the session identifier an aggregate response object carries, if any
ResponseSession ==
    IF "conversation_id" \in DOMAIN Unwrap(response).body
    THEN Unwrap(response).body.conversation_id ELSE None

\* the streaming handlers and the responses aggregate return the new session
SessionReturnedElsewhere ==
    /\ (handler = "handle_responses_once" /\ ResponseOk) =>
          ResponseSession = conv_id
    /\ (handler = "handle_stream" /\ rx_alive /\ Completed) =>
          /\ \E i \in 1..Len(Emitted) : IsChunk(Emitted[i])
          /\ \A i \in 1..Len(Emitted) :
                IsChunk(Emitted[i]) => Emitted[i].value.conversation_id = conv_id
    /\ (handler = "handle_responses_stream" /\ rx_alive /\ Completed) =>
          /\ IsCreated(Emitted[1])
          /\ Emitted[1].value.response.conversation_id = conv_id

\* C16 on the three handlers where it holds
C16_ReturnedExceptChatAggregate == CreatedSession => SessionReturnedElsewhere

\* C16: when a request supplies no session reference and the call succeeds,
\* the identifier of the newly created session is returned to the caller, in
\* the aggregate response object or in the streamed chunks/events, for each of
\* the four handlers.
C16_NewSessionReturned ==
    CreatedSession =>
        /\ SessionReturnedElsewhere
        /\ (handler = "handle_once" /\ ResponseOk) => ResponseSession = conv_id

\* the request carries system instructions that are not blank
HasInstructions ==
    /\ handler # "none"
    /\ IsSome(Unwrap(body).instructions)
    /\ ~BlankString(Unwrap(Unwrap(body).instructions))

\* the instruction begins with the line "system: <trimmed instructions>"
BeginsWithSystemLine ==
    LET line == <<"system", ":", " ">> \o Trim(Unwrap(Unwrap(body).instructions))
        mt == Unwrap(merged_text)
    IN  /\ IsSome(merged_text)
        /\ Len(mt) >= Len(line)
        /\ SubSeq(mt, 1, Len(line)) = line
        /\ Len(mt) > Len(line) => mt[Len(line) + 1] = "\n"

\* C17: whenever a request carries non-blank system instructions, the
\* instruction begins with a "system: "-prefixed line holding the trimmed
\* instructions, whatever the request shape - a chat request with both a
\* non-empty message list and instructions included.
C17_SystemLineFirst == HasInstructions => BeginsWithSystemLine

\* C17 on the shapes where it holds: the responses endpoint, and a chat
\* request without a message list
C17_SystemLineOnInputShapes ==
    (HasInstructions
        /\ (ResponsesHandler
              \/ (Unwrap(body).messages = None /\ IsSome(Unwrap(body).input)))) =>
        BeginsWithSystemLine

MainHandler ==
    handler \in {"handle_once", "handle_stream", "handle_responses_once",
                 "handle_responses_stream"}

\* the reference the request supplied, and what is wrong with it
Reference == Unwrap(body).conversation_id
Unparsable == IsSome(Reference) /\ Unwrap(Reference) \notin ThreadIds
Unknown ==
    IsSome(Reference) /\ Unwrap(Reference) \in ThreadIds \ KnownThreads

\* the handler is past session resolution, and how it went
Resolved == MainHandler /\ IsSome(merged_text) /\ pc # "resolve"
ResolutionFailed == Resolved /\ conv_id = None
ResolutionError == Unwrap(response).body.error.message

\* C18 (part): a failed resolution answers 500 "internal_error" and submits no
\* turn; its cause is a reference that does not parse, a reference to no known
\* session, or a failure of configuration / session creation; a bad reference
\* always fails and never creates a session; a success names a known session.
ResolutionOutcome ==
    /\ ResolutionFailed =>
          /\ pc = "done"
          /\ IsSome(response)
          /\ Unwrap(response).status = 500
          /\ Unwrap(response).body.error.type = "internal_error"
          /\ submitted = <<>> /\ task = "none" /\ pulls = 0 /\ Emitted = <<>>
          /\ \/ ResolutionError = <<"config: ", "invalid">>
             \/ /\ Unparsable
                /\ ResolutionError = <<"invalid conversation_id: ", Unwrap(Reference)>>
             \/ /\ Unknown
                /\ ResolutionError = <<"thread not found: ", Unwrap(Reference)>>
             \/ /\ Reference = None
                /\ ResolutionError = <<"start_thread: ", "failed">>
    /\ (Resolved /\ (Unparsable \/ Unknown)) =>
          ResolutionFailed /\ threads = KnownThreads
    /\ (Resolved /\ ~ResolutionFailed) =>
          /\ Unwrap(conv_id) \in threads
          /\ IsSome(Reference) =>
                /\ Reference = conv_id
                /\ Unwrap(conv_id) \in KnownThreads
                /\ threads = KnownThreads

\* C18 (part): every answer of the collaborators is possible at resolution:
\* with a usable or absent reference it can succeed
CanResolve ==
    (MainHandler /\ pc = "resolve" /\ ~Unparsable /\ ~Unknown) =>
        ENABLED (GetOrCreateThread(TRUE, TRUE) /\ conv_id' # None)

\* C18: session resolution fails, answering 500 "internal_error" without
\* submitting a turn, exactly when a supplied reference does not parse, names
\* no known session, or session creation/configuration fails; in the first two
\* cases no session is created.
C18_ResolutionFailure == ResolutionOutcome /\ CanResolve

\* a streamed responses request naming a well-formed but unknown session
C18_Witness ==
    /\ handler = "handle_responses_stream"
    /\ Resolved
    /\ Unknown
    /\ Unwrap(response).status = 500
    /\ ResolutionError = <<"thread not found: ", "thread-3">>
    /\ threads = KnownThreads

\* what an own-id event hands to the stream, and what a chunk carries
ChatPayloadOfMsg(m) ==
    IF m.kind = "AgentMessage" THEN Some([text |-> m.message])
    ELSE IF m.kind = "AgentMessageDelta" THEN Some([text |-> m.delta])
    ELSE IF IsToolItemMsg(m) THEN Some([call |-> m.item.call_id])
    ELSE None
ChatPayloadOfElement(e) ==
    IF IsContentChunk(e) THEN Some([text |-> Unwrap(e.value.delta.content)])
    ELSE IF IsToolChunk(e)
    THEN Some([call |-> Unwrap(e.value.delta.tool_calls)[1].id])
    ELSE None
ResponsesPayloadOfMsg(m) ==
    IF m.kind = "AgentMessage" THEN Some([text |-> m.message])
    ELSE IF m.kind = "AgentMessageDelta" THEN Some([text |-> m.delta])
    ELSE IF m.kind = "RawResponseItem" THEN Some([item |-> m.item])
    ELSE None
ResponsesPayloadOfElement(e) ==
    IF IsTextDelta(e) THEN Some([text |-> e.value.delta])
    ELSE IF IsItemDone(e) THEN Some([item |-> e.value.item])
    ELSE None

\* p is q, or q followed by the final message of the turn-complete
FollowsEvents(p, q) ==
    /\ Len(p) >= Len(q)
    /\ SubSeq(p, 1, Len(q)) = q
    /\ Len(p) > Len(q) =>
          /\ Len(p) = Len(q) + 1
          /\ Completed
          /\ Last(p) = [text |-> Unwrap(Last(ownlog).last_agent_message)]

\* C19: in streaming mode the chunks on the channel are in the order of the
\* own-id events that caused them, one chunk per forwarded event: no two
\* events share a chunk and no chunk overtakes an earlier one.
C19_OrderPreserved ==
    /\ (handler = "handle_stream" /\ rx_alive) =>
          FollowsEvents(FilterMap(ChatPayloadOfElement, Emitted),
                        FilterMap(ChatPayloadOfMsg, ownlog))
    /\ (handler = "handle_responses_stream" /\ rx_alive) =>
          FollowsEvents(FilterMap(ResponsesPayloadOfElement, Emitted),
                        FilterMap(ResponsesPayloadOfMsg, ownlog))

\* three chunks on the channel for three events, the turn still running
C19_Witness ==
    /\ handler = "handle_stream"
    /\ task = "loop"
    /\ rx_alive
    /\ ownlog = << AgentMessageDelta(<<"lo">>), RawResponseItem(FunctionCallItem),
                   AgentMessageDelta(<<"Hel">>) >>
    /\ Len(sent) = 3
    /\ IsContentChunk(sent[1])
    /\ IsToolChunk(sent[2])
    /\ sent[3].value.delta.content = Some(<<"Hel">>)

\* the consumer of a main-proxy stream has gone away
ConsumerGone == handler \in {"handle_stream", "handle_responses_stream"} /\ ~rx_alive

\* the loop's next step: another event, or the failure of the pull
PullsOn ==
    /\ ENABLED EventError
    /\ Len(ownlog) < MaxEvents =>
          ENABLED (\E ev \in Events : StreamNextEvent(ev)
                                      \/ ResponsesStreamNextEvent(ev))

\* a send is never stuck, the loop goes on, and the task is over only after
\* its own terminal event, a failed pull or a failed submit
GoneState ==
    ConsumerGone =>
        /\ pending # <<>> => ENABLED Send
        /\ (task = "loop" /\ pending = <<>>) => PullsOn
        /\ task = "exit" =>
              \/ SubmitFailed
              \/ PullFailed
              \/ EndedBy("TurnComplete") \/ EndedBy("Error")
              \/ EndedBy("TurnAborted")
        /\ \A i \in 1..Len(submitted) : submitted[i].op.type = "UserTurn"

\* nothing reaches the channel any more, a dropped element is not offered
\* again, and nothing further is submitted to the session because of it
GoneStep ==
    ConsumerGone =>
        /\ sent' = sent
        /\ pending' # pending =>
              \/ pending # <<>> /\ pending' = Tail(pending)
              \/ pending = <<>> /\ task \in {"submit", "loop"}
        /\ task = "loop" => submitted' = submitted
        /\ task' = "exit" /\ task = "loop" => pulls' = pulls + 1

\* C20: once the consumer of a stream has disappeared, every later send is
\* dropped without blocking and without a retry; the task sends no
\* cancellation to the session and keeps pulling events until its own
\* terminal event or a pull failure, and then terminates.
C20_ConsumerGone == []GoneState /\ [][GoneStep]_vars

\* the consumer left before the first chunk; the turn ran to its end unseen
C20_Witness ==
    /\ handler = "handle_stream"
    /\ ~rx_alive
    /\ TaskTerminated
    /\ Completed
    /\ Len(ownlog) = 3
    /\ ownlog[1].kind = "AgentMessageDelta"
    /\ ownlog[2].kind = "RawResponseItem"
    /\ sent = <<>>

\* the five failure kinds of the error envelope, and the one a run ended with
FailureKinds ==
    { "submission failed", "event stream failed", "upstream turn error",
      "turn aborted", "invalid request" }
FailureKind ==
    IF pc = "done" /\ merged_text = None /\ handler # "none"
    THEN "invalid request"
    ELSE IF SubmitFailed THEN "submission failed"
    ELSE IF task = "exit" /\ PullFailed THEN "event stream failed"
    ELSE IF EndedBy("Error") THEN "upstream turn error"
    ELSE IF EndedBy("TurnAborted") THEN "turn aborted"
    ELSE "none"

\* the category the aggregate handlers put in the envelope of each kind
CategoryOf(kind) ==
    IF kind = "invalid request" THEN NoUserContent.body.error.type
    ELSE ChatCompletionResponse(Err(<<kind>>), <<>>, <<>>).body.error.type

ErrorAnswered ==
    /\ Aggregate
    /\ IsSome(response)
    /\ Unwrap(response).status # OK
    /\ FailureKind \in FailureKinds

\* C21: the category (type) of the error envelope tells the five failure kinds
\* apart: the category returned for one kind is returned for no other kind.
C21_CategoryDistinguishes ==
    ErrorAnswered =>
        /\ Unwrap(response).body.error.type = CategoryOf(FailureKind)
        /\ \A k \in FailureKinds \ {FailureKind} :
               CategoryOf(k) # Unwrap(response).body.error.type

\* C21 (what the handlers do): two categories only, one for a rejected request
\* and one shared by the four failures of a turn
C21_TwoCategories ==
    ErrorAnswered =>
        Unwrap(response).body.error.type =
            IF FailureKind = "invalid request" THEN "invalid_request_error"
            ELSE "internal_error"

\* the tool call the structured-item mapping is to produce for an item
ExpectedToolCall(item) ==
    IF item.type = "FunctionCall"
    THEN Some([id |-> item.call_id, kind |-> "function",
               function |-> [name |-> item.name, arguments |-> item.arguments]])
    ELSE IF item.type = "CustomToolCall"
    THEN Some([id |-> item.call_id, kind |-> "function",
               function |-> [name |-> item.name, arguments |-> item.input]])
    ELSE None
ExpectedToolCallOfMsg(m) ==
    IF m.kind = "RawResponseItem" THEN ExpectedToolCall(m.item) ELSE None
ExpectedToolCallOfApiEvent(ev) ==
    IF ev.kind = "ResponseItem" THEN ExpectedToolCall(ev.item) ELSE None

\* C22 (main proxy): the tool calls gathered by the aggregate handler are the
\* mappings of the own-id function-call and custom-tool-call items, kind
\* "function", with the item's call id, name and arguments / input.
C22_MappingMain ==
    handler = "handle_once" =>
        /\ tool_calls = FilterMap(ExpectedToolCallOfMsg, ownlog)
        /\ \A i \in 1..Len(ownlog) :
              ownlog[i].kind = "RawResponseItem" =>
                  map_tool_call(ownlog[i].item) = ExpectedToolCall(ownlog[i].item)

\* C22: the same mapping in the pure-forwarding variant: function call and
\* custom tool call items both become tool calls of kind "function"; every
\* other item is not a tool call.
C22_MappingForwarding ==
    handler = "mc_handle_once" =>
        /\ tool_calls = FilterMap(ExpectedToolCallOfApiEvent, ownlog)
        /\ \A i \in 1..Len(ownlog) :
              ownlog[i].kind = "ResponseItem" =>
                  mc_map_tool_call(ownlog[i].item)
                      = ExpectedToolCall(ownlog[i].item)

\* C23: two calls on one session both complete: once the session has emitted
\* a terminal event for each of the two turn ids, each call's task observes
\* its own terminal event and terminates, whatever the order of their pulls.
C23_BothComplete ==
    (TerminalEmitted(SubmissionId) /\ TerminalEmitted(ForeignId))
        ~> (task = "exit" /\ peer.task = "exit")

\* C23 (what does hold): a task ends only on a terminal event of its own id
C23_OwnTerminalOnly ==
    /\ (task = "exit" /\ peer.task # "none") =>
          (ownlog # <<>> /\ IsTerminal(Last(ownlog)))
    /\ peer.task = "exit" => TerminalEmitted(ForeignId)

\* the stream is drained, the peer has taken and discarded this call's
\* turn-complete, and this call waits for an event that will not come
C23_Starved ==
    /\ TerminalEmitted(SubmissionId)
    /\ TerminalEmitted(ForeignId)
    /\ evTaken = Len(events)
    /\ task = "loop"
    /\ pending = <<>>

MainStreaming == handler \in {"handle_stream", "handle_responses_stream"}

\* one submission at most; a failed submit is followed by no pull; a failed
\* pull ends the task; every failure of the turn is reported as an error event
\* is: 500 "internal_error" with the task's message, or the error element as
\* the last element of the stream
NoRetryState ==
    /\ Len(submitted) <= 1
    /\ SubmitFailed => pulls = 0
    /\ PullFailed => task = "exit"
    /\ (Aggregate /\ TurnFailed) =>
          /\ IsSome(result) /\ ~Unwrap(result).ok
          /\ pc = "done" =>
                response = Some(error_response(INTERNAL_SERVER_ERROR,
                                               Unwrap(result).error,
                                               "internal_error"))
    /\ (MainStreaming /\ TurnFailed /\ rx_alive) =>
          /\ Emitted # <<>> /\ IsError(Last(Emitted))
          /\ Count(IsError, Emitted) = 1
          /\ Count(IsDone, Emitted) = 0

\* after a failure the task neither submits nor pulls again
NoRetryStep ==
    (handler # "none" /\ TurnFailed) =>
        /\ submitted' = submitted
        /\ pulls' = pulls
        /\ task' = task
        /\ UNCHANGED << ownlog, nForeign >>

\* C24: no retries. Each call submits at most one Turn Request; after a failed
\* submit the task never pulls an event; after a failed pull or an own-id
\* error or turn-aborted event it neither submits nor pulls again; the single
\* failure ends the turn and is reported the way an error event is.
C24_NoRetries == []NoRetryState /\ [][NoRetryStep]_vars

\* the second pull failed after one own-id delta; the call answered 500
C24_Witness ==
    /\ handler = "handle_once"
    /\ PullFailed
    /\ Len(ownlog) = 1
    /\ pulls = 2
    /\ pc = "done"
    /\ Unwrap(response).status = INTERNAL_SERVER_ERROR
    /\ Unwrap(response).body.error.message = <<"event error: ", "closed">>

\* no own-id terminal event was pulled and no pull has failed
NoTerminalYet ==
    /\ submitted # <<>>
    /\ ~PullFailed
    /\ \A i \in 1..Len(ownlog) : ~IsTerminal(ownlog[i])

\* C25: the loop ends only on an own-id turn-complete, error or turn-aborted
\* event or on a failed pull. Until then the aggregate handler has not
\* answered and the stream carries no terminal chunk and no [DONE]: a session
\* that only emits foreign-id, warning or other events keeps the request open.
C25_NoTimeout ==
    /\ (handler \in {"handle_once", "handle_responses_once", "handle_stream",
                     "handle_responses_stream"} /\ task = "exit") =>
          \/ SubmitFailed
          \/ PullFailed
          \/ ownlog # <<>> /\ IsTerminal(Last(ownlog))
    /\ NoTerminalYet =>
          /\ task = "loop"
          /\ Aggregate => (response = None /\ result = None /\ pc = "await")
          /\ MainStreaming =>
                /\ Count(IsFinishChunk, Emitted) = 0
                /\ Count(IsDone, Emitted) = 0
                /\ Count(IsCompleted, Emitted) = 0
                /\ Count(IsError, Emitted) = 0

\* three own-id warnings and a foreign event later the call is still waiting
C25_Witness ==
    /\ handler = "handle_once"
    /\ Len(ownlog) = MaxEvents
    /\ \A i \in 1..Len(ownlog) : ownlog[i].kind \in {"Warning", "TokenCount"}
    /\ nForeign = MaxForeign
    /\ NoTerminalYet
    /\ task = "loop"
    /\ response = None

\* the resolver has answered with a session
ResolvedOk == Resolved /\ conv_id # None

\* what the resolver returned and what it did to the set of sessions
ResolverEffect ==
    /\ (ResolvedOk /\ Reference = None) =>
          /\ Unwrap(conv_id) \notin KnownThreads
          /\ threads = KnownThreads \cup {Unwrap(conv_id)}
          /\ Cardinality(threads) = Cardinality(KnownThreads) + 1
    /\ (ResolvedOk /\ Reference # None) =>
          /\ Unwrap(Reference) \in KnownThreads
          /\ conv_id = Reference
          /\ threads = KnownThreads

\* the set of sessions changes only when a call without a reference is
\* resolved, and then by one session
ResolverStep ==
    threads' # threads =>
        /\ pc = "resolve"
        /\ Reference = None
        /\ threads \subseteq threads'
        /\ Cardinality(threads') = Cardinality(threads) + 1

\* C26: the Session Resolver, given no reference, creates exactly one new
\* session and returns its identifier; given a reference to a known session,
\* it returns that session and the reference and creates no session.
C26_ResolverEffect == []ResolverEffect /\ [][ResolverStep]_vars

\* a call without a reference was given a session that did not exist before
C26_Witness ==
    /\ MainHandler
    /\ Reference = None
    /\ ResolvedOk
    /\ Unwrap(conv_id) \notin KnownThreads
    /\ Cardinality(threads) = 2

\* an event kind for which the loops have no arm, or the empty warning arm
HandledKinds ==
    { "AgentMessage", "AgentMessageDelta", "RawResponseItem", "TurnComplete",
      "Error", "TurnAborted" }
IsInert(m) == m.kind \notin HandledKinds
IsHandled(m) == m.kind \in HandledKinds

\* the step that pulls an own-id warning or unhandled event changes no buffer,
\* list or flag, sends nothing and stays in the loop
InertStep ==
    (Len(ownlog') > Len(ownlog) /\ IsInert(Last(ownlog'))) =>
        /\ UNCHANGED << accVars, pending, sent, result, response, pc >>
        /\ task = "loop" /\ task' = "loop"

\* the state and the output are those of the run without these events
InertIgnored ==
    LET log == Select(IsHandled, ownlog)
        ran == task \in {"loop", "exit"} /\ ~SubmitFailed
    IN  /\ (handler = "handle_once" /\ ran) =>
              LET r == OnceRun(log)
              IN  /\ final_text = r.final_text
                  /\ tool_calls = r.tool_calls
                  /\ (~PullFailed => result = r.ret)
                  /\ (~PullFailed /\ pc = "done") =>
                        response = Some(ChatCompletionResponse(
                            Unwrap(r.ret), r.tool_calls, Unwrap(body).model))
        /\ (handler = "handle_responses_once" /\ ran) =>
              LET r == ResponsesOnceRun(log)
              IN  /\ final_text = r.final_text
                  /\ text_seen = r.text_seen
                  /\ output_items = r.output_items
                  /\ (~PullFailed => result = r.ret)
                  /\ (~PullFailed /\ pc = "done") =>
                        response = Some(ResponsesResponse(
                            Unwrap(r.ret), r.output_items,
                            map_model(Unwrap(body).model), Unwrap(conv_id)))
        /\ (handler = "handle_stream" /\ ran) =>
              LET r == StreamRun(log, Unwrap(conv_id))
              IN  /\ tool_seen = r.tool_seen
                  /\ (rx_alive /\ ~PullFailed => Emitted = r.out)
        /\ (handler = "handle_responses_stream" /\ ran) =>
              LET r == ResponsesStreamRun(log, Unwrap(conv_id))
              IN  /\ text_seen = r.text_seen
                  /\ (rx_alive /\ ~PullFailed =>
                        Emitted = <<Ok(response_created_event(ResponseId,
                                                              conv_id))>> \o r.out)

\* C27: an own-id warning, or an own-id event of a kind other than
\* text-message, text-delta, raw-structured-item, turn-complete, error and
\* turn-aborted, leaves the buffer, the lists and the flags unchanged, sends
\* nothing and the loop goes on; the response is as if it had not occurred.
C27_InertEvents == [][InertStep]_vars /\ []InertIgnored

\* a warning between a delta and the turn-complete; the answer is the delta
C27_Witness ==
    /\ handler = "handle_once"
    /\ ownlog = << AgentMessageDelta(<<"Hel">>), Warning(<<"slow">>),
                   TurnComplete(None) >>
    /\ pc = "done"
    /\ ResponseOk
    /\ Choice.message.content = <<"Hel">>

\* what the step that pulls an own-id structured item hands to the channel
ItemStep ==
    (Len(ownlog') > Len(ownlog) /\ Last(ownlog').kind = "RawResponseItem") =>
        LET item == Last(ownlog').item
            tc == ExpectedToolCall(item)
        IN  /\ handler = "handle_responses_stream" =>
                  /\ Len(pending') = 1
                  /\ IsItemDone(pending'[1])
                  /\ pending'[1].value.item = item
            /\ handler = "handle_stream" =>
                  IF IsSome(tc)
                  THEN /\ Len(pending') = 1
                       /\ IsToolChunk(pending'[1])
                       /\ pending'[1].value.delta.tool_calls
                              = Some(<<[index |-> 0, id |-> Unwrap(tc).id,
                                        type |-> "function",
                                        function |-> Unwrap(tc).function]>>)
                       /\ pending'[1].value.delta.content = None
                  ELSE pending' = <<>>

\* as many item elements as items, as many tool_calls chunks as tool items
ItemCounts ==
    /\ (handler = "handle_responses_stream" /\ rx_alive) =>
          Count(IsItemDone, Emitted) = Count(IsItemMsg, ownlog)
    /\ (handler = "handle_stream" /\ rx_alive) =>
          Count(IsToolChunk, Emitted) = Count(IsToolItemMsg, ownlog)

\* C28: in responses-style streaming every own-id structured item produces one
\* response.output_item.done element, tool call or not; in chat-style
\* streaming it produces a tool_calls chunk if and only if it maps to a tool
\* call, and no chunk otherwise.
C28_ItemsByDialect == [][ItemStep]_vars /\ []ItemCounts

\* a reasoning item and a custom tool call on the chat stream: one chunk
C28_Witness ==
    /\ handler = "handle_stream"
    /\ rx_alive
    /\ ownlog = << RawResponseItem(ReasoningItem),
                   RawResponseItem(CustomToolCallItem) >>
    /\ Len(sent) = 1
    /\ IsToolChunk(sent[1])
    /\ pending = <<>>

\* the task is inside tx.send(..).await with nothing to stop the send but
\* the channel's capacity
WaitingForCapacity ==
    /\ MainStreaming
    /\ rx_alive
    /\ pending # <<>>
    /\ ~ ENABLED Send

\* C29: the task is suspended only in next_event and the consumer only on the
\* channel; the task is never suspended waiting for free capacity in the
\* channel while the consumer is alive and has not drained it.
C29_NeverWaitsForCapacity == ~WaitingForCapacity

\* C29 (what does hold): the task waits in a send only when the channel holds
\* ChannelCapacity elements, and the buffer never holds more
C29_WaitsOnlyWhenFull ==
    /\ Len(sent) - taken <= ChannelCapacity
    /\ WaitingForCapacity => Len(sent) - taken = ChannelCapacity

IsPrefix(a, b) == Len(a) <= Len(b) /\ SubSeq(b, 1, Len(a)) = a
ItemOptOfMsg(m) == IF IsItemMsg(m) THEN Some(m.item) ELSE None

\* the handler has answered only after the task was over, and its successful
\* answer lists the turn's tool calls / structured items once each, in event
\* order (the responses answer may end with the assistant message it adds)
SharedListRead ==
    /\ (Aggregate /\ IsSome(conv_id) /\ IsSome(response)) => task = "exit"
    /\ (handler = "handle_once" /\ ResponseOk) =>
          LET calls == FilterMap(ExpectedToolCallOfMsg, ownlog)
          IN  Choice.message.tool_calls
                  = IF calls = <<>> THEN None ELSE Some(calls)
    /\ (handler = "handle_responses_once" /\ ResponseOk) =>
          LET items == FilterMap(ItemOptOfMsg, ownlog)
              out == Unwrap(response).body.output
          IN  \/ out = items
              \/ /\ out # <<>>
                 /\ Front(out) = items
                 /\ Last(out).type = "Message"
                 /\ Last(out).role = <<"assistant">>

\* the task only appends to the shared list, the handler's read falls after
\* the task's end, and nothing touches the list afterwards
SharedListStep ==
    /\ IsPrefix(tool_calls, tool_calls')
    /\ IsPrefix(output_items, output_items')
    /\ (tool_calls' # tool_calls \/ output_items' # output_items) =>
          task = "loop" /\ response = None
    /\ (Aggregate /\ response' # response /\ pc = "await") =>
          /\ task = "exit"
          /\ UNCHANGED << tool_calls, output_items >>

\* C30: in aggregate mode the handler reads the shared tool-call / output-item
\* list only after the task has terminated, and the task only appends to it;
\* the successful response holds every own-id mapped tool call (every own-id
\* structured item) of the turn, each once, in event order.
C30_SharedList == []SharedListRead /\ [][SharedListStep]_vars

\* two tool calls in one turn, answered in the order of their events
C30_Witness ==
    /\ handler = "handle_once"
    /\ ownlog = << RawResponseItem(CustomToolCallItem),
                   RawResponseItem(FunctionCallItem), TurnComplete(None) >>
    /\ ResponseOk
    /\ Len(Unwrap(Choice.message.tool_calls)) = 2
    /\ Unwrap(Choice.message.tool_calls)[1].id = "call_2"
    /\ Unwrap(Choice.message.tool_calls)[2].id = "call_1"

\* the left-to-right fold of the text events of a log: a text-message adds
\* its text and a newline, a text-delta adds its text
RECURSIVE TextFold(_)
TextFold(log) ==
    IF log = <<>> THEN <<>>
    ELSE LET m == Last(log)
             before == TextFold(Front(log))
         IN  IF m.kind = "AgentMessage" THEN before \o m.message \o <<"\n">>
             ELSE IF m.kind = "AgentMessageDelta" THEN before \o m.delta
             ELSE before

\* the turn ended with a turn-complete that carries no final message
CompletedWithoutFinal ==
    Completed /\ Last(ownlog).last_agent_message = None

\* C31: in aggregate mode, after own-id text-message and text-delta events
\* and a turn-complete with no final message, the content is the trim of the
\* fold in which a text-message appends its text and a newline and a
\* text-delta appends its raw text.
C31_TextAccumulation ==
    /\ (handler = "handle_once" /\ CompletedWithoutFinal /\ ResponseOk) =>
          Choice.message.content = Trim(TextFold(Front(ownlog)))
    /\ (handler = "handle_responses_once" /\ CompletedWithoutFinal) =>
          /\ final_text = TextFold(Front(ownlog))
          /\ \A i \in 1..Len(output_items) :
                output_items[i].type = "Message" =>
                    output_items[i].content
                        = <<OutputText(Trim(TextFold(Front(ownlog))))>>

\* a text-message, then a delta, then the turn-complete
C31_Witness ==
    /\ handler = "handle_once"
    /\ ownlog = << AgentMessage(<<"ok">>), AgentMessageDelta(<<"Hel">>),
                   TurnComplete(None) >>
    /\ ResponseOk
    /\ Choice.message.content = <<"ok", "\n", "Hel">>

\* some text was seen in the turn: a text-message, a text-delta or a final
\* message; and the text the turn ended with
TextSeen(log) ==
    \/ \E i \in 1..Len(log) : log[i].kind \in {"AgentMessage", "AgentMessageDelta"}
    \/ IsSome(Last(log).last_agent_message)
FinalText(log) ==
    IF IsSome(Last(log).last_agent_message)
    THEN Unwrap(Last(log).last_agent_message)
    ELSE TextFold(Front(log))

\* C32: the output of a successful responses aggregate call is the own-id
\* structured items in event order, followed by exactly one assistant message
\* holding the trimmed final text if and only if some text was seen and the
\* trimmed text is not empty; otherwise there is no message item.
C32_OutputComposition ==
    (handler = "handle_responses_once" /\ ResponseOk) =>
        LET items == FilterMap(ItemOptOfMsg, ownlog)
            text == Trim(FinalText(ownlog))
            out == Unwrap(response).body.output
        IN  /\ Completed
            /\ out = IF TextSeen(ownlog) /\ text # <<>>
                     THEN Append(items, [type |-> "Message",
                                         role |-> <<"assistant">>,
                                         content |-> <<[type |-> "OutputText",
                                                        text |-> text]>>])
                     ELSE items

\* an item, then text, then the turn-complete: the item and the message
C32_Witness ==
    /\ handler = "handle_responses_once"
    /\ ownlog = << RawResponseItem(ReasoningItem), AgentMessageDelta(<<"Hel">>),
                   TurnComplete(None) >>
    /\ ResponseOk
    /\ Len(Unwrap(response).body.output) = 2
    /\ Unwrap(response).body.output[2].type = "Message"

\* only blank text was seen: no message item
C32_WitnessBlank ==
    /\ handler = "handle_responses_once"
    /\ ownlog = << AgentMessageDelta(<<" ">>), TurnComplete(None) >>
    /\ ResponseOk
    /\ Unwrap(response).body.output = <<>>

\* the task has pulled a terminal event of its own id
OwnTerminalSeen == \E i \in 1..Len(ownlog) : IsTerminal(ownlog[i])

\* the terminal event is the last event the task pulled, and the task is over
TerminalIsLast ==
    OwnTerminalSeen =>
        /\ IsTerminal(Last(ownlog))
        /\ \A i \in 1..(Len(ownlog) - 1) : ~IsTerminal(ownlog[i])
        /\ task = "exit"
        /\ pulls = Len(ownlog) + nForeign

\* after it, no step is a call of next_event
NoPullAfterTerminal ==
    OwnTerminalSeen => UNCHANGED << pulls, ownlog, nForeign, task >>

\* C33: once a task has received its own terminal event (turn-complete, error
\* or turn-aborted) it never calls next-event again, and so takes no event of
\* a later or concurrent turn from the session.
C33_NoPullAfterTerminal == []TerminalIsLast /\ [][NoPullAfterTerminal]_vars

\* a foreign event was discarded, then the own turn-aborted ended the stream
C33_Witness ==
    /\ handler = "handle_responses_stream"
    /\ EndedBy("TurnAborted")
    /\ nForeign = 1
    /\ TaskTerminated
    /\ rx_alive
    /\ IsError(Last(sent))

IsTextMsg(m) == m.kind \in {"AgentMessage", "AgentMessageDelta"}

\* C34: chat-style streaming sends the text of a turn at most once: when a
\* content chunk was already sent for the turn, the final message of the
\* turn-complete is not sent as a further content chunk.
C34_TextAtMostOnce ==
    (/\ handler = "handle_stream"
     /\ rx_alive
     /\ Completed
     /\ Count(IsTextMsg, ownlog) > 0) =>
        Count(IsContentChunk, Emitted) = Count(IsTextMsg, ownlog)

\* C34 (what the handler does): the final message is a content chunk of its
\* own whenever the turn-complete carries one
C34_FinalAlwaysSent ==
    (handler = "handle_stream" /\ rx_alive /\ Completed) =>
        Count(IsContentChunk, Emitted)
            = Count(IsTextMsg, ownlog)
                + (IF IsSome(Last(ownlog).last_agent_message) THEN 1 ELSE 0)

\* how the model client's stream went, in the forwarding proxy
MCStreaming == handler = "mc_handle_stream" /\ task \in {"loop", "exit"}
MCEnded == ownlog # <<>> /\ Last(ownlog).kind = "StreamEnd"
MCFailed == ownlog # <<>> /\ Last(ownlog).kind = "Error"

\* the shape of the forwarded stream while it runs, after its end, and after
\* an error event
ForwardedShape ==
    (MCStreaming /\ rx_alive) =>
        /\ \A i \in 1..(Len(ownlog) - 1) :
              ownlog[i].kind \notin {"StreamEnd", "Error"}
        /\ (MCEnded \/ MCFailed) <=> task = "exit"
        /\ MCEnded =>
              /\ Len(Emitted) >= 2
              /\ IsFinishChunk(Emitted[Len(Emitted) - 1])
              /\ Emitted[Len(Emitted) - 1].value.finish_reason
                     \in {Some("stop"), Some("tool_calls")}
              /\ IsDone(Last(Emitted))
              /\ Count(IsFinishChunk, Emitted) = 1
              /\ Count(IsDone, Emitted) = 1
              /\ Count(IsError, Emitted) = 0
        /\ MCFailed =>
              /\ Last(Emitted) = Err(Last(ownlog).error)
              /\ Count(IsError, Emitted) = 1
              /\ Count(IsFinishChunk, Emitted) = 0
              /\ Count(IsDone, Emitted) = 0
        /\ ~(MCEnded \/ MCFailed) =>
              /\ Count(IsError, Emitted) = 0
              /\ Count(IsFinishChunk, Emitted) = 0
              /\ Count(IsDone, Emitted) = 0

\* after the end or the error no event is read and nothing more is produced
ForwardedStep ==
    (MCStreaming /\ (MCEnded \/ MCFailed)) =>
        /\ UNCHANGED << ownlog, pulls, task >>
        /\ Len(sent') + Len(pending') <= Len(sent) + Len(pending)

\* C35: the forwarding proxy's stream. When the model client's stream ends
\* without an error event the task sends exactly one terminal chunk with the
\* finish reason and then exactly one [DONE]; on an error event it sends one
\* error element and nothing after it, and forwards no later event.
C35_ForwardedStream == []ForwardedShape /\ [][ForwardedStep]_vars

\* a text delta was forwarded, then the error ended the stream
C35_Witness ==
    /\ handler = "mc_handle_stream"
    /\ ownlog = << TextDelta(<<"Hel">>), ApiError(<<"boom">>) >>
    /\ TaskTerminated
    /\ rx_alive
    /\ Len(sent) = 2
    /\ IsContentChunk(sent[1])
    /\ sent[2] = Err(<<"boom">>)

\* The fragments of a request and their lines, as the normalizer is to treat
\* them: role, text, and whether that request shape trims the text of a line.
RefBlockText(v) ==
    IF v.t # "Object" THEN <<>>
    ELSE LET f == IF v.text # None THEN v.text ELSE v.content
         IN  IF f # None /\ Unwrap(f).t = "String" THEN <<Unwrap(f).s>> ELSE <<>>

RECURSIVE RefBlockTexts(_)
RefBlockTexts(arr) ==
    IF arr = <<>> THEN <<>>
    ELSE RefBlockTexts(Front(arr)) \o RefBlockText(Last(arr))

RECURSIVE RefJoinLines(_)
RefJoinLines(lines) ==
    IF lines = <<>> THEN <<>>
    ELSE IF Len(lines) = 1 THEN lines[1]
    ELSE RefJoinLines(Front(lines)) \o <<"\n">> \o Last(lines)

RefContent(c) ==
    IF c.t = "String" THEN c.s
    ELSE IF c.t = "Array" THEN RefJoinLines(RefBlockTexts(c.arr))
    ELSE <<>>

RECURSIVE RefLines(_, _)
RefLines(frags, trimmed) ==
    IF frags = <<>> THEN <<>>
    ELSE LET f == Last(frags)
             rest == RefLines(Front(frags), trimmed)
         IN  IF Trim(f.text) = <<>> THEN rest
             ELSE Append(rest, f.role \o <<":", " ">>
                                   \o (IF trimmed THEN Trim(f.text) ELSE f.text))

RefText(lines) == IF lines = <<>> THEN None ELSE Some(RefJoinLines(lines))

RefSystem(instructions) ==
    IF instructions # None /\ Trim(Unwrap(instructions)) # <<>>
    THEN << <<"system", ":", " ">> \o Trim(Unwrap(instructions)) >>
    ELSE <<>>

ChatFragments(msgs) ==
    [i \in 1..Len(msgs) |->
        [role |-> msgs[i].role, text |-> RefContent(msgs[i].content)]]

InputObjects(input) == Select(LAMBDA v : v.t = "Object", input)
InputFragments(input) ==
    LET objs == InputObjects(input)
    IN  [i \in 1..Len(objs) |->
            LET o == objs[i]
            IN  [role |-> IF o.role # None /\ Unwrap(o.role).t = "String"
                          THEN Unwrap(o.role).s ELSE <<"user">>,
                 text |-> RefContent(IF o.content # None THEN Unwrap(o.content)
                                     ELSE IF o.text # None THEN Unwrap(o.text)
                                     ELSE JNull)]]

ItemText(c) ==
    IF c.type \in {"InputText", "OutputText"} THEN <<c.text>> ELSE <<>>
RECURSIVE ItemTexts(_)
ItemTexts(content) ==
    IF content = <<>> THEN <<>>
    ELSE ItemTexts(Front(content)) \o ItemText(Last(content))
MessageItems(input) == Select(LAMBDA it : it.type = "Message", input)
ItemFragments(input) ==
    LET ms == MessageItems(input)
    IN  [i \in 1..Len(ms) |->
            [role |-> ms[i].role, text |-> RefJoinLines(ItemTexts(ms[i].content))]]

\* the instruction of a chat-style request: the lines of its messages, or,
\* when these give none, the lines of its input after the system line
RefChatInstruction(b) ==
    LET fromMessages ==
            IF b.messages = None THEN <<>>
            ELSE RefLines(ChatFragments(Unwrap(b.messages)), FALSE)
    IN  IF fromMessages # <<>> THEN RefText(fromMessages)
        ELSE IF b.input = None THEN None
        ELSE RefText(RefSystem(b.instructions)
                         \o RefLines(InputFragments(Unwrap(b.input)), TRUE))

RefResponsesInstruction(b) ==
    RefText(RefSystem(b.instructions) \o RefLines(ItemFragments(b.input), TRUE))

\* C36: the instruction is a function of the request; its lines are the
\* non-blank fragments in input order, each prefixed with its role and ": ";
\* an empty or whitespace-only fragment gives no line; list-form content is
\* the newline-join of the text (or content) field of its blocks.
C36_NormalizerMerge ==
    /\ ChatHandler => merged_text = RefChatInstruction(Unwrap(body))
    /\ ResponsesHandler => merged_text = RefResponsesInstruction(Unwrap(body))

\* two messages, a string and a block list, in the order of the request
C36_Witness ==
    /\ ChatHandler
    /\ Unwrap(body).messages =
          Some(<< ChatMessage(UserRole, JArr(<<Block(Some(JNull), Some(JStr(<<"hi">>))),
                                              Block(None, Some(JStr(<<"yo">>)))>>)),
                  ChatMessage(UserRole, JStr(<<"hi">>)) >>)
    /\ merged_text = Some(<<"user", ":", " ", "yo", "\n", "user", ":", " ", "hi">>)

\* the Turn Request this call submitted, if any
OwnSubmissions == Select(LAMBDA s : s.id = SubmissionId, submitted)

\* C37: every Turn Request submitted carries the fixed execution policy
\* (approval never, sandbox read-only), the instruction the normalizer made
\* for its call and the normalized model name, under a request id of its own
\* that no other call's request carries.
C37_TurnRequest ==
    /\ \A i \in 1..Len(submitted) :
          /\ submitted[i].op.type = "UserTurn"
          /\ submitted[i].op.approval_policy = "Never"
          /\ submitted[i].op.sandbox_policy = "ReadOnly"
          /\ Len(submitted[i].op.items) = 1
          /\ submitted[i].op.items[1].type = "Text"
          /\ submitted[i].op.model = Gpt4o
    /\ \A i, j \in 1..Len(submitted) :
          submitted[i].id = submitted[j].id => i = j
    /\ Len(OwnSubmissions) <= 1
    /\ \A i \in 1..Len(OwnSubmissions) :
          /\ OwnSubmissions[i].op.items[1].text
                 = Unwrap(RefChatInstruction(Unwrap(body)))
          /\ OwnSubmissions[i].op.items[1].text = Unwrap(merged_text)

\* both calls have submitted their Turn Request to the one session
C37_Witness ==
    /\ Len(submitted) = 2
    /\ submitted[1].id = ForeignId
    /\ submitted[2].id = SubmissionId
    /\ submitted[2].op.items[1].text = <<"user", ":", " ", "hi">>
    /\ Unwrap(body).model = Gpt4oUpper

\* ------------------------------------------------ model names of a request
\* The handlers on requests whose model name varies: every spelling, in upper
\* and lower case, of the alias table's names and of names outside the table.
ToUpperChar(c) ==
    CASE c = "g" -> "G" [] c = "p" -> "P" [] c = "t" -> "T" [] c = "o" -> "O"
      [] c = "m" -> "M" [] c = "i" -> "I" [] c = "n" -> "N"
      [] c = "r" -> "R" [] c = "e" -> "E" [] c = "v" -> "V" [] c = "w" -> "W"
      [] OTHER -> c

Spellings(s) ==
    { [i \in 1..Len(s) |-> IF i \in U THEN ToUpperChar(s[i]) ELSE s[i]] :
        U \in SUBSET (1..Len(s)) }

OtherNames ==
    { <<>>, <<"g", "p", "t", "-", "4">>, <<"g", "p", "t", "-", "5">>,
      Gpt4o \o <<"-">>, <<"o", "3">>, <<"m", "i", "n", "i">>,
      <<"g", "p", "t", "4", "o">>, <<" ">> \o Gpt4o }

ModelNames ==
    UNION { Spellings(aliases[k][1]) : k \in 1..Len(aliases) }
      \cup UNION { Spellings(s) : s \in OtherNames }

ModelBodies ==
    { ChatBody(m, Some(<<ChatMessage(UserRole, JStr(<<"hi">>))>>),
               None, None, st, None) : m \in ModelNames, st \in BOOLEAN }
ModelResponsesBodies ==
    { ResponsesBody(m, <<MessageItem(UserRole, <<InputText(<<"hi">>)>>)>>,
                    None, st, None) : m \in ModelNames, st \in BOOLEAN }

NextModel ==
    \/ \E b \in ModelBodies : HandleChatCompletions(b)
    \/ \E b \in ModelResponsesBodies : HandleResponses(b)
    \/ GetOrCreateThread(TRUE, TRUE)
    \/ Submit(TRUE)

SpecModel == Init /\ [][NextModel]_vars

\* two characters are the same letter when case is ignored
CasePairs ==
    { <<"G", "g">>, <<"P", "p">>, <<"T", "t">>, <<"O", "o">>, <<"M", "m">>,
      <<"I", "i">>, <<"N", "n">>, <<"R", "r">>, <<"E", "e">>, <<"V", "v">>,
      <<"W", "w">> }
SameLetter(c, d) == c = d \/ <<c, d>> \in CasePairs \/ <<d, c>> \in CasePairs
EqIgnoreCase(a, b) ==
    Len(a) = Len(b) /\ \A i \in 1..Len(a) : SameLetter(a[i], b[i])

AliasEntries(m) ==
    { k \in 1..Len(aliases) : EqIgnoreCase(m, aliases[k][1]) }

\* C38: map_model is total and idempotent: a name equal, ignoring case, to
\* an alias entry maps to that entry's canonical name, every other name is
\* returned unchanged, and a normalized name normalizes to itself.
C38_MapModel ==
    /\ task = "submit" => ENABLED Submit(TRUE)
    /\ \A i \in 1..Len(submitted) :
          LET m == Unwrap(body).model
              r == submitted[i].op.model
          IN /\ \A k \in AliasEntries(m) : r = aliases[k][2]
             /\ AliasEntries(m) = {} => r = m
             /\ map_model(r) = r

\* a mixed-case spelling of an alias was normalized to the canonical name
C38_Witness ==
    /\ Len(submitted) = 1
    /\ Unwrap(body).model = <<"G", "p", "T", "-", "4", ".", "1", "-", "M", "i", "N", "i">>
    /\ submitted[1].op.model = Gpt41Mini

\* a name outside the table was passed through in the caller's spelling
C38_WitnessOther ==
    /\ Len(submitted) = 1
    /\ Unwrap(body).model = <<"G", "P", "T", "-", "5">>
    /\ submitted[1].op.model = <<"G", "P", "T", "-", "5">>

=============================================================================
